---- MODULE Spec2Model ----
(***************************************************************************)
(* Orchestration core of the medical multi-agent system:                   *)
(*   Agent/flow.py       supervisor_node, routing_func, the state graph    *)
(*                       and its InMemorySaver checkpointer                *)
(*   Agent/*_node.py     the four worker nodes and the deltas they return  *)
(*   backend_api.py      the three chat handlers that drive the graph      *)
(*                                                                         *)
(* Python strings are modelled as sequences of tokens (one token per       *)
(* character or per opaque word), so that substring tests and strip() are  *)
(* computed and not assumed.  A State dict is a function whose DOMAIN is   *)
(* the set of fields that are present (State is total=False).              *)
(***************************************************************************)
EXTENDS Integers, Sequences, FiniteSets, TLC

\* ---------------------------------------------------------------------
\* Bounds of the model
\* ---------------------------------------------------------------------
MaxTurns == 2
NumSlots == 2
MaxStreamTurns == 1

Sessions == {"p1", "p2"}
Slots == 1..NumSlots

\* ---------------------------------------------------------------------
\* Strings as token sequences
\* ---------------------------------------------------------------------
EmptyStr == <<>>

\* `sub in s` of Python, on token sequences
Contains(sub, s) ==
    \E i \in 0..(Len(s) - Len(sub)) : SubSeq(s, i + 1, i + Len(sub)) = sub

Whitespace == {" ", "nl"}

RECURSIVE LStrip(_)
LStrip(s) == IF s # <<>> /\ Head(s) \in Whitespace THEN LStrip(Tail(s)) ELSE s

RECURSIVE RStrip(_)
RStrip(s) ==
    IF s # <<>> /\ s[Len(s)] \in Whitespace THEN RStrip(SubSeq(s, 1, Len(s) - 1)) ELSE s

\* str.strip()
Strip(s) == RStrip(LStrip(s))

\* the three literal phrases of supervisor_node:
\*   "huan zhe chu xian"   = 患者出现
\*   "huan zhe zhu su"     = 患者主诉
\*   "huan zhe zheng zhuang" = 患者症状
PhraseChuXian == <<"huan", "zhe", "chu", "xian">>
PhraseZhuSu == <<"huan", "zhe", "zhu", "su">>
PhraseZhengZhuang == <<"huan", "zhe", "zheng", "zhuang">>

LooksFresh(user_input) ==
    \/ Contains(PhraseChuXian, user_input)
    \/ Contains(PhraseZhuSu, user_input)
    \/ Contains(PhraseZhengZhuang, user_input)

\* messages a client can send: a fresh symptom report ("患者出现痛") and an
\* answer to the triage questions that mentions the patient without any of
\* the three phrases ("患者有糖")
TextReport == <<"huan", "zhe", "chu", "xian", "tong">>
TextAnswer == <<"huan", "zhe", "you", "tang">>
UserTexts == {TextReport, TextAnswer}

\* ---------------------------------------------------------------------
\* Node identifiers
\* ---------------------------------------------------------------------
END == <<"__end__">>
TypeTriage == <<"triage_node">>
TypeRecommend == <<"recommend_node">>
TypeAgen == <<"agen_node">>
TypeOther == <<"other">>

\* flow.py: nodes = ["triage_node", "recommend_node", "agen_node", "other"]
nodes == {TypeTriage, TypeRecommend, TypeAgen, TypeOther}

WorkerNodes == {"triage_node", "recommend_node", "agen_node", "other_node"}

\* what the classifier LLM may answer (response.content), before strip()
ClassifierAnswers ==
    { TypeTriage, TypeRecommend, TypeAgen, TypeOther,
      <<" ", "triage_node", "nl">>,
      END,
      <<"other_node">> }

\* ---------------------------------------------------------------------
\* Messages and State dicts
\* ---------------------------------------------------------------------
Msg(type, author, turn, ex, content) ==
    [type |-> type, author |-> author, turn |-> turn, ex |-> ex, content |-> content]

Last(s) == s[Len(s)]

Get(st, f, default) == IF f \in DOMAIN st THEN st[f] ELSE default

EmptyDict == {}
EmptyList == <<>>

\* the state of a thread that has no checkpoint yet: the messages channel
\* (a list aggregated with operator.add) is empty and no other field is set
BlankState == [f \in {"messages"} |-> <<>>]

\* State: messages is Annotated[..., operator.add], every other field is
\* overwritten by the last write
Merge(st, delta) ==
    [f \in (DOMAIN st) \cup (DOMAIN delta) |->
        IF f \in DOMAIN delta
        THEN IF f = "messages"
             THEN Get(st, "messages", <<>>) \o delta[f]
             ELSE delta[f]
        ELSE st[f]]

\* ---------------------------------------------------------------------
\* flow.py: supervisor_node and routing_func
\* ---------------------------------------------------------------------
\* user_input of supervisor_node: content of the last message
UserInputOf(st) ==
    IF st.messages # <<>> THEN Last(st.messages).content ELSE EmptyStr

\* the context rule without its escape for fresh symptom reports
Override_no_escape(st) ==
    /\ Get(st, "has_triaged", FALSE)
    /\ Get(st, "analysis_result", EmptyDict) = EmptyDict

\* flow.py 128-134: has_triaged and not has_diagnosis and none of the phrases
Override(st) ==
    /\ Get(st, "has_triaged", FALSE)
    /\ Get(st, "analysis_result", EmptyDict) = EmptyDict
    /\ ~LooksFresh(UserInputOf(st))

\* supervisor_node without the context rule: the classifier alone decides
supervisor_node_no_override(st, answer) ==
    LET typeRes == Strip(answer)
    IN  IF typeRes \in nodes THEN [type |-> typeRes] ELSE [type |-> TypeOther]

\* supervisor_node without the check against `nodes`
supervisor_node_unvalidated(st, answer) ==
    IF Override(st) THEN [type |-> TypeRecommend] ELSE [type |-> Strip(answer)]

\* a supervisor_node whose context rule relies on a type written earlier
supervisor_node_keeps_type(st, answer) ==
    IF Override(st)
    THEN IF "type" \in DOMAIN st /\ st.type \in nodes
         THEN [type |-> st.type]
         ELSE [type |-> TypeRecommend]
    ELSE LET typeRes == Strip(answer)
         IN  IF typeRes \in nodes THEN [type |-> typeRes] ELSE [type |-> TypeOther]

\* the delta supervisor_node returns when the classifier answers `answer`
supervisor_node(st, answer) ==
    IF Override(st)
    THEN [type |-> TypeRecommend]
    ELSE LET typeRes == Strip(answer)
         IN  IF typeRes \in nodes THEN [type |-> typeRes] ELSE [type |-> TypeOther]

\* routing_func whose last branch ends the graph
routing_func_end_default(st) ==
    CASE st.type = TypeTriage -> "triage_node"
      [] st.type = TypeRecommend -> "recommend_node"
      [] st.type = TypeAgen -> "agen_node"
      [] OTHER -> "__end__"

routing_func(st) ==
    CASE st.type = TypeTriage -> "triage_node"
      [] st.type = TypeRecommend -> "recommend_node"
      [] st.type = TypeAgen -> "agen_node"
      [] st.type = END -> "__end__"
      [] OTHER -> "other_node"

\* ---------------------------------------------------------------------
\* Worker nodes.  Each operator gives, for one way the node's internal work
\* can end, the delta the node returns, the state object as the node leaves
\* it (view) and the messages it appended in place to the list it was given.
\* ---------------------------------------------------------------------
Tags == <<"a", "b", "c", "d", "e", "f", "g", "h">>
Tag(turn, ex) == Tags[2 * (turn - 1) + ex]

SetField(st, f, v) == [g \in (DOMAIN st) \cup {f} |-> IF g = f THEN v ELSE st[g]]

NodeResult(delta, view, appended) ==
    [delta |-> delta, view |-> view, appended |-> appended]

\* outputs of the two triage agents of one execution
Triage1Out(tag) == <<"intro", "dis", "q", tag>>
Triage2Out(tag) == <<"level", tag>>

\* ParallelTriageNode._combine_results
combine_results(triage1_result, triage2_result) ==
    <<"nl", "nl", "nl">> \o triage2_result \o <<"nl", "nl">> \o triage1_result
        \o <<"nl", "nl">>

RECURSIVE DropUntilDis(_)
DropUntilDis(s) == IF s = <<>> \/ Head(s) = "dis" THEN s ELSE DropUntilDis(Tail(s))

RECURSIVE JoinSegments(_, _)
JoinSegments(s, first) ==
    IF s = <<>> THEN <<>>
    ELSE IF Head(s) = "dis" /\ ~first
         THEN <<"nl", "dis">> \o JoinSegments(Tail(s), FALSE)
         ELSE <<Head(s)>> \o JoinSegments(Tail(s), FALSE)

\* triage_node 437-440: the sections that start with a disease marker
\* ("dis"), joined by newlines, or the whole text when there is none
TriageQuestions(triage1_result) ==
    IF Contains(<<"dis">>, triage1_result)
    THEN JoinSegments(DropUntilDis(triage1_result), TRUE)
    ELSE triage1_result

TriageOutcomes == {"ok", "raise"}

\* a triage_node that opens a new case: a successful triage also clears the
\* stored diagnosis
triage_node_new_case(st, outcome, turn, ex) ==
    IF outcome = "ok"
    THEN LET r1 == Triage1Out(Tag(turn, ex))
             r2 == Triage2Out(Tag(turn, ex))
             combined == combine_results(r1, r2)
         IN  NodeResult(
                [messages |-> <<Msg("human", "triage_node", turn, ex, combined)>>,
                 triage1_result |-> r1,
                 triage2_result |-> r2,
                 combined_analysis |-> combined,
                 has_triaged |-> TRUE,
                 analysis_result |-> EmptyDict,
                 triage_questions |-> TriageQuestions(r1)],
                st, <<>>)
    ELSE NodeResult(
            [messages |-> <<Msg("human", "triage_node", turn, ex, <<"error:triage">>)>>],
            st, <<>>)

\* a triage_node whose except clause also marks the session as triaged
triage_node_marks_failed(st, outcome, turn, ex) ==
    IF outcome = "ok"
    THEN LET r1 == Triage1Out(Tag(turn, ex))
             r2 == Triage2Out(Tag(turn, ex))
             combined == combine_results(r1, r2)
         IN  NodeResult(
                [messages |-> <<Msg("human", "triage_node", turn, ex, combined)>>,
                 triage1_result |-> r1,
                 triage2_result |-> r2,
                 combined_analysis |-> combined,
                 has_triaged |-> TRUE,
                 triage_questions |-> TriageQuestions(r1)],
                st, <<>>)
    ELSE NodeResult(
            [messages |-> <<Msg("human", "triage_node", turn, ex, <<"error:triage">>)>>,
             has_triaged |-> TRUE],
            st, <<>>)

triage_node(st, outcome, turn, ex) ==
    IF outcome = "ok"
    THEN LET r1 == Triage1Out(Tag(turn, ex))
             r2 == Triage2Out(Tag(turn, ex))
             combined == combine_results(r1, r2)
         IN  NodeResult(
                [messages |-> <<Msg("human", "triage_node", turn, ex, combined)>>,
                 triage1_result |-> r1,
                 triage2_result |-> r2,
                 combined_analysis |-> combined,
                 has_triaged |-> TRUE,
                 triage_questions |-> TriageQuestions(r1)],
                st, <<>>)
    ELSE NodeResult(
            [messages |-> <<Msg("human", "triage_node", turn, ex, <<"error:triage">>)>>],
            st, <<>>)

\* a non-empty analysis_result, as the keys it carries
AnalysisResult == {"most_likely_disease", "confidence", "disease_details"}

RecommendOutcomes == {"ok_result", "ok_noresult", "agent_raise", "create_raise"}

\* MedicalAnalysisNode.__call__ that clears the triage questions it answered
MedicalAnalysisNode_clears_questions(st, outcome, turn, ex) ==
    LET reply == Msg("ai", "recommend_node", turn, ex, <<"analysis", Tag(turn, ex)>>)
        view == SetField(SetField(st, "triage_questions", EmptyStr),
                         "messages", st.messages \o <<reply>>)
    IN  NodeResult(view, view, <<>>)

\* a MedicalAnalysisNode that stores a result also when its agent raised
MedicalAnalysisNode_result_on_error(st, outcome, turn, ex) ==
    LET reply == Msg("ai", "recommend_node", turn, ex, <<"analysis", Tag(turn, ex)>>)
        conclusion == Msg("ai", "recommend_node", turn, ex,
                          <<"analysis", Tag(turn, ex), "nl", "nl", "conclusion">>)
        error == Msg("ai", "recommend_node", turn, ex, <<"error:analysis">>)
    IN  CASE outcome = "ok_result" ->
               LET view == SetField(SetField(st, "analysis_result", AnalysisResult),
                                    "messages", st.messages \o <<conclusion>>)
               IN  NodeResult(view, view, <<>>)
          [] outcome = "ok_noresult" ->
               LET view == SetField(st, "messages", st.messages \o <<reply>>)
               IN  NodeResult(view, view, <<>>)
          [] OTHER ->
               LET view == SetField(SetField(st, "analysis_result", {"error"}),
                                    "messages", st.messages \o <<error>>)
               IN  NodeResult(view, view, <<error>>)

\* MedicalAnalysisNode.__call__: works on the state object it was given and
\* returns that object
MedicalAnalysisNode(st, outcome, turn, ex) ==
    LET reply == Msg("ai", "recommend_node", turn, ex, <<"analysis", Tag(turn, ex)>>)
        conclusion == Msg("ai", "recommend_node", turn, ex,
                          <<"analysis", Tag(turn, ex), "nl", "nl", "conclusion">>)
        error == Msg("ai", "recommend_node", turn, ex, <<"error:analysis">>)
    IN  CASE outcome = "ok_result" ->
               \* state["analysis_result"] = ...; state["messages"] = response["messages"]
               LET view == SetField(SetField(st, "analysis_result", AnalysisResult),
                                    "messages", st.messages \o <<conclusion>>)
               IN  NodeResult(view, view, <<>>)
          [] outcome = "ok_noresult" ->
               LET view == SetField(st, "messages", st.messages \o <<reply>>)
               IN  NodeResult(view, view, <<>>)
          [] OTHER ->
               \* state["messages"].append(AIMessage(error)); return state
               LET view == SetField(st, "messages", st.messages \o <<error>>)
               IN  NodeResult(view, view, <<error>>)

recommend_node(st, outcome, turn, ex) ==
    IF outcome = "create_raise"
    THEN NodeResult(
            [messages |-> <<Msg("human", "recommend_node", turn, ex, <<"error:recommend">>)>>],
            st, <<>>)
    ELSE MedicalAnalysisNode(st, outcome, turn, ex)

ExpertsOutcomes == {"ok", "raise"}

\* an experts_node that also files its report as the analysis result
experts_node_stores_report(st, outcome, turn, ex) ==
    IF outcome = "ok"
    THEN NodeResult([messages |-> <<Msg("human", "agen_node", turn, ex, <<"report", Tag(turn, ex)>>)>>,
                     analysis_result |-> {"report"}],
                    st, <<>>)
    ELSE NodeResult([messages |-> <<Msg("human", "agen_node", turn, ex, <<"error:experts">>)>>],
                    st, <<>>)

experts_node(st, outcome, turn, ex) ==
    IF outcome = "ok"
    THEN NodeResult([messages |-> <<Msg("human", "agen_node", turn, ex, <<"report", Tag(turn, ex)>>)>>],
                    st, <<>>)
    ELSE NodeResult([messages |-> <<Msg("human", "agen_node", turn, ex, <<"error:experts">>)>>],
                    st, <<>>)

QueryOutcomes == {"ok", "raise"}

query_node(st, outcome, turn, ex) ==
    IF outcome = "ok"
    THEN NodeResult([messages |-> <<Msg("human", "other_node", turn, ex, <<"answer", Tag(turn, ex)>>)>>],
                    st, <<>>)
    ELSE NodeResult([messages |-> <<Msg("human", "other_node", turn, ex, <<"error:query">>)>>],
                    st, <<>>)

Outcomes(node) ==
    CASE node = "triage_node" -> TriageOutcomes
      [] node = "recommend_node" -> RecommendOutcomes
      [] node = "agen_node" -> ExpertsOutcomes
      [] OTHER -> QueryOutcomes

\* the outcomes in which the node's internal work raised
FailureOutcomes == {"raise", "agent_raise", "create_raise"}

\* flow.py 76-110: the graph's node functions delegate to the implementations
RunNode(node, st, outcome, turn, ex) ==
    CASE node = "triage_node" -> triage_node(st, outcome, turn, ex)
      [] node = "recommend_node" -> recommend_node(st, outcome, turn, ex)
      [] node = "agen_node" -> experts_node(st, outcome, turn, ex)
      [] OTHER -> query_node(st, outcome, turn, ex)

\* the fields a step reads as state[field], which raises KeyError when the
\* field is absent; triage_node also reads state["user_input"] that way
SubscriptReads_user_input(step) ==
    CASE step = "supervisor_node" -> {"messages"}
      [] step = "routing_func" -> {"type"}
      [] step = "triage_node" -> {"user_input"}
      [] step = "recommend_node" -> {"messages"}
      [] OTHER -> {}

\* the fields a step reads as state[field] with no test of their presence
\* before; every other read is state.get(field, default) or follows one
\*   supervisor_node  flow.py 123            state["messages"]
\*   routing_func     flow.py 178-184        state["type"]
\*   triage_node      triage_node.py 362-364 state["messages"] after state.get
\*   recommend_node   recommend_node.py 344  state["messages"]
\*   agen_node        experts_node.py 657-662 state['triage*_result'] after state.get
\*   other_node       query_node.py 260      state.get only
SubscriptReads(step) ==
    CASE step = "supervisor_node" -> {"messages"}
      [] step = "routing_func" -> {"type"}
      [] step = "triage_node" -> {}
      [] step = "recommend_node" -> {"messages"}
      [] OTHER -> {}

\* the state dict without the fields of F
Without(st, F) == [f \in (DOMAIN st) \ F |-> st[f]]

\* ---------------------------------------------------------------------
\* backend_api.py: what the handlers pass to the graph
\* ---------------------------------------------------------------------
Handlers == {"chat", "stream", "ws"}

\* the fields every first-turn input of the HTTP handlers carries
DefaultFields ==
    [type |-> EmptyStr,
     disease_data |-> EmptyDict,
     risk_factor_count |-> 0,
     analysis_result |-> EmptyDict,
     diagnostic_tests |-> EmptyList,
     user_input |-> EmptyStr,
     triage1_result |-> EmptyStr,
     triage2_result |-> EmptyStr,
     combined_analysis |-> EmptyStr,
     has_triaged |-> FALSE,
     triage_questions |-> EmptyStr]

\* input_data of chat_with_ai / chat_with_ai_stream / websocket_chat;
\* first: the patient's conversation_history is empty
InputData(handler, patient_id, text, turn, first) ==
    LET base == [messages |-> <<Msg("human", "user", turn, 0, text)>>,
                 patient_id |-> patient_id]
    IN  IF handler # "ws" /\ first THEN base @@ DefaultFields ELSE base

\* one thread_id for every patient
ThreadId_shared(patient_id) == "p1"

\* config["configurable"]["thread_id"]
ThreadId(patient_id) == patient_id

\* ---------------------------------------------------------------------
\* triage_node.py: ParallelTriageNode and the sync/async bridge of triage_node
\* ---------------------------------------------------------------------
\* how a task (_run_triage1, _run_triage2) ends when nothing stops it:
\* it returns, it raises, it raises a RuntimeError, or it never completes
TaskFates == {"ok", "raise", "raise_runtime", "hang"}

NewTask(fate) == [fate |-> fate, state |-> "running"]

\* what task i returns: _run_triage1 the agent's last message,
\* _run_triage2 the LLM's answer
TaskOut(i, tag) == IF i = 1 THEN Triage1Out(tag) ELSE Triage2Out(tag)

Exc(type, msg) == [kind |-> "exc", type |-> type, msg |-> msg]

\* the exception task i raises
TaskExc(i, fate) ==
    Exc(IF fate = "raise_runtime" THEN "RuntimeError" ELSE "Exception",
        IF i = 1 THEN <<"agent_failed">> ELSE <<"llm_failed">>)

Pending == [kind |-> "pending"]

\* asyncio.gather whose results come in the order of completion
gather_in_completion_order(tasks, order, tag) ==
    IF \E i \in 1..2 : tasks[i].state = "failed"
    THEN LET first == CHOOSE k \in 1..Len(order) :
                         /\ tasks[order[k]].state = "failed"
                         /\ \A j \in 1..(k - 1) : tasks[order[j]].state # "failed"
         IN  TaskExc(order[first], tasks[order[first]].fate)
    ELSE IF \A i \in 1..2 : tasks[i].state = "done"
         THEN [kind |-> "ok", results |-> <<TaskOut(order[1], tag), TaskOut(order[2], tag)>>]
         ELSE Pending

\* asyncio.gather(self._run_triage1(...), self._run_triage2(...)) without
\* return_exceptions: the first exception is raised to the awaiter at once,
\* otherwise the results of all tasks in the order of the arguments
gather(tasks, order, tag) ==
    IF \E i \in 1..2 : tasks[i].state = "failed"
    THEN LET first == CHOOSE k \in 1..Len(order) :
                         /\ tasks[order[k]].state = "failed"
                         /\ \A j \in 1..(k - 1) : tasks[order[j]].state # "failed"
         IN  TaskExc(order[first], tasks[order[first]].fate)
    ELSE IF \A i \in 1..2 : tasks[i].state = "done"
         THEN [kind |-> "ok", results |-> <<TaskOut(1, tag), TaskOut(2, tag)>>]
         ELSE Pending

\* ParallelTriageNode.__call__: the awaited gather, then _combine_results
ParallelTriageNode(tasks, order, tag) ==
    LET g == gather(tasks, order, tag)
    IN  IF g.kind = "ok"
        THEN [kind |-> "ok",
              triage1_result |-> g.results[1],
              triage2_result |-> g.results[2],
              combined_analysis |-> combine_results(g.results[1], g.results[2])]
        ELSE g

\* a cleanup that closes the loop without cancelling what still runs on it
LoopCleanup_no_cancel(tasks) == tasks

\* the finally blocks of triage_node: every task still pending on the loop is
\* cancelled and awaited before the loop is closed
LoopCleanup(tasks) ==
    [i \in 1..2 |->
        IF tasks[i].state = "running" THEN [tasks[i] EXCEPT !.state = "cancelled"]
        ELSE tasks[i]]

BridgePaths == {"thread", "direct"}

MsgTimeout == <<"triage_timeout">>
MsgLoopRunning == <<"cannot_run_loop_while_another_is_running">>
MsgUnbound == <<"cannot_access_local_variable_concurrent">>

\* a bridge that lets the executor's TimeoutError through as it is
TriageBridge_raw_timeout(path, op, timedout) ==
    IF path = "thread"
    THEN IF timedout THEN Exc("TimeoutError", <<>>)
         ELSE IF op.kind = "exc" /\ op.type = "RuntimeError"
              THEN Exc("RuntimeError", MsgLoopRunning)
              ELSE op
    ELSE IF op.kind = "exc" THEN Exc("UnboundLocalError", MsgUnbound)
         ELSE op

\* what the try statement of triage_node (376-434) hands on for the outcome
\* `op` of parallel_triage(parallel_state).
\*   thread: future.result(timeout=180) in a ThreadPoolExecutor; a timeout
\*           becomes Exception(timeout text); a RuntimeError of the operation
\*           is taken by `except RuntimeError` (408), whose run_until_complete
\*           fails because the calling thread's loop is running
\*   direct: the operation's exception reaches
\*           `except concurrent.futures.TimeoutError` (427), where the name
\*           concurrent, local to triage_node and bound only on the thread
\*           path, is unbound
TriageBridge(path, op, timedout) ==
    IF path = "thread"
    THEN IF timedout THEN Exc("Exception", MsgTimeout)
         ELSE IF op.kind = "exc" /\ op.type = "RuntimeError"
              THEN Exc("RuntimeError", MsgLoopRunning)
              ELSE op
    ELSE IF op.kind = "exc" THEN Exc("UnboundLocalError", MsgUnbound)
         ELSE op

\* triage_node 436-501: the delta returned for what the bridge handed on
TriageDelta(surfaced, call) ==
    IF surfaced.kind = "ok"
    THEN [messages |-> <<Msg("human", "triage_node", call, 1, surfaced.combined_analysis)>>,
          triage1_result |-> surfaced.triage1_result,
          triage2_result |-> surfaced.triage2_result,
          combined_analysis |-> surfaced.combined_analysis,
          has_triaged |-> TRUE,
          triage_questions |-> TriageQuestions(surfaced.triage1_result)]
    ELSE [messages |-> <<Msg("human", "triage_node", call, 1,
                             <<"error:triage">> \o surfaced.msg)>>]

IdleBridge ==
    [pc |-> "idle", path |-> "none", call |-> 0,
     tasks |-> <<NewTask("ok"), NewTask("ok")>>,
     order |-> <<>>,        \* the tasks in the order they ended
     op |-> Pending,        \* outcome of parallel_triage(parallel_state)
     loop |-> "none",       \* the private event loop of the call
     thread |-> "none",     \* the executor's worker thread
     caller |-> "none",     \* the thread that called triage_node
     deadline |-> FALSE,    \* 180 s have passed since the call
     surfaced |-> Pending,
     delta |-> BlankState]

\* ---------------------------------------------------------------------
\* The lazily built module-level components:
\*   triage_node.py     _mcp_client, _mcp_tools, _llm
\*   recommend_node.py  _mcp_client, _mcp_tools, _medical_analysis_node
\* An instance is identified by the number of its construction; 0 is None.
\* ---------------------------------------------------------------------
NumCallers == 2
MaxLocatorCalls == 3

Callers == 1..NumCallers

LocatorFns == {"components", "node"}

ToolsNone == [set |-> FALSE, of |-> 0]     \* _mcp_tools = None
ToolsEmpty == [set |-> TRUE, of |-> 0]     \* _mcp_tools = []
ToolsOf(client) == [set |-> TRUE, of |-> client]

NodeNone == [id |-> 0, tools |-> ToolsNone]

\* triage_node.py 276
ComponentsMissing(cache) == cache.client = 0 \/ ~cache.tools.set \/ cache.llm = 0

\* recommend_node.py 506
NodeMissing(cache) == cache.node.id = 0

\* recommend_node.py 508
ClientMissing(cache) == cache.client = 0 \/ ~cache.tools.set

NothingGot == [llm |-> 0, client |-> 0, tools |-> ToolsNone, node |-> NodeNone]

\* after: the call began when a call of the same getter had returned;
\* tried: how this call's own initialize_mcp_client() ended, if it ran one
IdleCaller ==
    [pc |-> "idle", fn |-> "none", after |-> FALSE, tried |-> "none", got |-> NothingGot]

EmptyLocator ==
    [triage |-> [client |-> 0, tools |-> ToolsNone, llm |-> 0],
     recommend |-> [client |-> 0, tools |-> ToolsNone, node |-> NodeNone],
     callers |-> [c \in Callers |-> IdleCaller],
     clients |-> [fn \in LocatorFns |-> 0],   \* MultiServerMCPClient constructions
     llms |-> 0,                              \* create_llm() calls
     nodes |-> 0,                             \* MedicalAnalysisNode constructions
     returned |-> [fn \in LocatorFns |-> FALSE], \* a call of the getter has returned
     calls |-> 0]

\* ---------------------------------------------------------------------
\* Several triage_node calls in flight together (turns of different
\* sessions, each on its own thread): the event loops they create and the
\* tasks on those loops.  A loop is identified by the number of its
\* construction; 0 is no loop.
\* ---------------------------------------------------------------------
NumPoolCalls == 2
MaxPoolLoops == 3

PoolCalls == 1..NumPoolCalls

\* a loop shared by the calls, as asyncio.get_event_loop() on one thread gives
new_event_loop_shared(created) == 1

\* asyncio.new_event_loop() (triage_node.py 385, 410): a loop of its own
new_event_loop(created) == created + 1

PoolTask(loop, fate) == [loop |-> loop, state |-> "running", fate |-> fate]

NoPoolTask == [loop |-> 0, state |-> "none", fate |-> "ok"]

\* asyncio.all_tasks(loop): the unfinished tasks of that loop
all_tasks(tasks, loop) ==
    {kt \in PoolCalls \X (1..2) :
        tasks[kt[1]][kt[2]].loop = loop /\ tasks[kt[1]][kt[2]].state = "running"}

\* for task in pending: task.cancel(), then the gather that waits for them
CancelAll(tasks, pending) ==
    [k \in PoolCalls |->
        [i \in 1..2 |->
            IF <<k, i>> \in pending
            THEN [tasks[k][i] EXCEPT !.state = "cancelled"]
            ELSE tasks[k][i]]]

\* parallel_triage ends when a task has raised or both have returned
PoolOpEnded(ts) ==
    \/ \E i \in 1..2 : ts[i].state = "failed"
    \/ \A i \in 1..2 : ts[i].state = "done"

IdlePoolCall == [pc |-> "idle", path |-> "none", loop |-> 0]

EmptyPool ==
    [calls |-> [k \in PoolCalls |-> IdlePoolCall],
     tasks |-> [k \in PoolCalls |-> [i \in 1..2 |-> NoPoolTask]],
     created |-> 0,        \* event loops constructed so far
     closed |-> {}]        \* the loops on which close() has been called

\* ---------------------------------------------------------------------
\* The structured patient record the worker nodes write through
\* patient_manager (patient_model.py) besides the delta they return
\* ---------------------------------------------------------------------
MaxStoreCalls == 3

StoreNodes == {"triage_node", "recommend_node", "agen_node"}

\* how patient_manager behaves during a call: the write succeeds or raises
StoreFates == {"ok", "raise"}

\* the state a node is called with; has_id: state.get("patient_id") is set
StoreEntry(text, triaged, has_id) ==
    LET input == Merge(BlankState, InputData("chat", "p1", text, 1, TRUE))
        st == IF triaged
              THEN Merge(input, triage_node(input, "ok", 1, 1).delta)
              ELSE input
    IN  IF has_id THEN st ELSE Without(st, {"patient_id"})

\* the condition under which the node reaches its patient_manager calls:
\*   triage_node     `if patient_id and triage_level`        (467)
\*   recommend_node  `if patient_id and analysis_result`     (669)
\*   experts_node    `if patient_id`                         (699)
\* none is reached when the node's own work raised before
ReachesSave(node, st, outcome, res) ==
    /\ "patient_id" \in DOMAIN st
    /\ CASE node = "triage_node" ->
               /\ outcome = "ok"
               /\ Contains(<<"level">>, res.delta.triage2_result)
         [] node = "recommend_node" ->
               /\ outcome # "create_raise"
               /\ Get(res.delta, "analysis_result", EmptyDict) # EmptyDict
         [] OTHER -> outcome = "ok"

\* a persistence block without its own try statement: the exception of
\* patient_manager goes on to the node's outer except clause
SaveBlock_no_try(reached, pm) ==
    [written |-> reached /\ pm = "ok", raised |-> reached /\ pm = "raise"]

\* the try/except Exception around the patient_manager calls
\* (triage_node.py 468-483, recommend_node.py 670-717, experts_node.py 700-749)
SaveBlock(reached, pm) ==
    [written |-> reached /\ pm = "ok", raised |-> FALSE]

\* the outcome with which a node's outer except clause answers
OuterExcept(node) == IF node = "recommend_node" THEN "create_raise" ELSE "raise"

\* a worker node together with its persistence block
NodeWithSave(node, st, outcome, turn, pm) ==
    LET res == RunNode(node, st, outcome, turn, 1)
        save == SaveBlock(ReachesSave(node, st, outcome, res), pm)
    IN  [delta |-> IF save.raised
                   THEN RunNode(node, st, OuterExcept(node), turn, 1).delta
                   ELSE res.delta,
         written |-> save.written]

IdleStoreCall ==
    [pc |-> "idle", node |-> "none", st |-> BlankState, outcome |-> "none",
     pm |-> "ok", delta |-> BlankState]

EmptyStore ==
    [call |-> IdleStoreCall,
     calls |-> 0,
     records |-> {}]       \* the nodes whose part of the patient record is written

\* ---------------------------------------------------------------------
\* experts_node.py: the experts sub-graph, run in supersteps.  The nodes of
\* a step read the state as it was when the step began; their writes are
\* applied together when all of them have returned.
\* ---------------------------------------------------------------------
MaxExpertRuns == 2

START == "__start__"
ExpertsEND == "__end__"

ExpertNodes == {"diagnostic_expert", "treatment_expert", "imaging_expert"}
SubGraphNodes == ExpertNodes \cup {"summary"}

\* a workflow in which imaging_expert starts together with diagnostic_expert
ExpertsEdges_imaging_first ==
    { <<START, "diagnostic_expert">>,
      <<START, "imaging_expert">>,
      <<"diagnostic_expert", "treatment_expert">>,
      <<"imaging_expert", "summary">>,
      <<"treatment_expert", "summary">>,
      <<"summary", ExpertsEND>> }

\* build_experts_graph: the add_edge calls (602-607)
ExpertsEdges ==
    { <<START, "diagnostic_expert">>,
      <<"diagnostic_expert", "imaging_expert">>,
      <<"diagnostic_expert", "treatment_expert">>,
      <<"imaging_expert", "summary">>,
      <<"treatment_expert", "summary">>,
      <<"summary", ExpertsEND>> }

\* the nodes triggered by the nodes (or START) that ran in the last step
Triggered(ran) ==
    {m \in SubGraphNodes : \E n \in ran : <<n, m>> \in ExpertsEdges}

OpinionField(n) ==
    CASE n = "diagnostic_expert" -> "diagnostic_expert_opinion"
      [] n = "treatment_expert" -> "treatment_expert_opinion"
      [] OTHER -> "imaging_expert_opinion"

\* how the agent (or, in summary, llm.invoke) of a node ends
ExpertFates == {"ok", "raise"}

ExpertOpinion(n, run) == <<"opinion", n, Tags[run]>>

\* f"...出错: {str(e)}"
ExpertError(n, run) == <<"error:opinion", n, "reason", Tags[run]>>

\* an expert whose except clause reports in messages only
ExpertNode_silent(n, view, fate, run) ==
    IF fate = "ok"
    THEN [f \in {OpinionField(n), "messages"} |->
            IF f = "messages" THEN <<Msg("ai", n, run, 1, <<"done">>)>>
            ELSE ExpertOpinion(n, run)]
    ELSE [messages |-> <<Msg("ai", n, run, 1, <<"failed">>)>>]

\* diagnostic_expert_node, treatment_expert_node, imaging_expert_node
ExpertNode(n, view, fate, run) ==
    [f \in {OpinionField(n), "messages"} |->
        IF f = "messages"
        THEN <<Msg("ai", n, run, 1, IF fate = "ok" THEN <<"done">> ELSE <<"failed">>)>>
        ELSE IF fate = "ok" THEN ExpertOpinion(n, run) ELSE ExpertError(n, run)]

\* the report quotes the three opinions it read
FinalReport(view, run) ==
    <<"report", Tags[run]>> \o view.diagnostic_expert_opinion
        \o view.imaging_expert_opinion \o view.treatment_expert_opinion

ErrorReport(run) == <<"error:report", Tags[run]>>

\* summary_node
summary_node(view, fate, run) ==
    LET report == IF fate = "ok" THEN FinalReport(view, run) ELSE ErrorReport(run)
    IN  [final_report |-> report,
         consultation_summary |-> IF fate = "ok" THEN <<"summary">> ELSE report,
         messages |-> <<Msg("human", "summary", run, 1, report)>>]

SubGraphNode(n, view, fate, run) ==
    IF n = "summary" THEN summary_node(view, fate, run) ELSE ExpertNode(n, view, fate, run)

\* expert_input of experts_node (675-687), without the fields no node writes
expert_input ==
    [messages |-> <<>>,
     diagnostic_expert_opinion |-> EmptyStr,
     treatment_expert_opinion |-> EmptyStr,
     imaging_expert_opinion |-> EmptyStr,
     final_report |-> EmptyStr,
     consultation_summary |-> EmptyStr]

NoWrite == [messages |-> <<>>]

\* the writes of a step, applied node by node in the order of the node names
RECURSIVE ApplyWrites(_, _, _)
ApplyWrites(state, writes, todo) ==
    IF todo = {} THEN state
    ELSE LET n == CHOOSE x \in todo : TRUE
         IN  ApplyWrites(Merge(state, writes[n]), writes, todo \ {n})

IdleExperts ==
    [pc |-> "idle", run |-> 0,
     fates |-> [n \in SubGraphNodes |-> "ok"],
     state |-> expert_input,
     step |-> 0,
     active |-> {},        \* the nodes of the current step
     started |-> {},       \* those of them that have been called
     returned |-> {},      \* those of them that have returned
     writes |-> [n \in SubGraphNodes |-> NoWrite],
     views |-> [n \in SubGraphNodes |-> expert_input],   \* the state each node read
     applied |-> {},       \* the nodes whose writes are in the state
     log |-> <<>>,         \* calls and returns of the nodes, in order
     stepOf |-> [n \in SubGraphNodes |-> 0],
     result |-> EmptyStr]  \* final_report as experts_node takes it

\* ---------------------------------------------------------------------
\* State
\* ---------------------------------------------------------------------
\* ---------------------------------------------------------------------
\* The patient record: patient_data/<patient_id>.json (patient_model.py)
\* One patient; the file system does not fail.  Worker nodes run in
\* executor threads, the HTTP handlers on the event loop.
\* ---------------------------------------------------------------------
NumChats == 2
MaxSubmits == 1
MaxTests == 2

Chats == 1..NumChats

\* Optional sub-records; set = FALSE stands for None
NoTriageInfo == [set |-> FALSE, by |-> 0]
NoExpertConsultation == [set |-> FALSE, by |-> 0]
NoDiagnosisInfo == [set |-> FALSE, by |-> 0, has_submitted |-> FALSE, submitted_tests |-> <<>>]
NoText == [set |-> FALSE, val |-> <<>>]

\* PatientData(patient_id=...) with its defaults; exists: the file is there
PatientData(now) ==
    [exists |-> FALSE,
     created_at |-> now, updated_at |-> now,
     patient_name |-> "None", initial_symptoms |-> "None", patient_history |-> "None",
     test_results |-> NoText,
     triage_info |-> NoTriageInfo,
     diagnosis_info |-> NoDiagnosisInfo,
     expert_consultation |-> NoExpertConsultation,
     conversation_history |-> <<>>]

RecordFieldNames ==
    {"created_at", "updated_at", "patient_name", "initial_symptoms", "patient_history",
     "test_results", "triage_info", "diagnosis_info", "expert_consultation",
     "conversation_history"}

\* load_patient_data: None when the file does not exist
load_patient_data(file) == file

\* a create_or_load_patient that always starts from an empty record
create_or_load_patient_fresh(file, now) == PatientData(now)

create_or_load_patient(file, now) ==
    IF load_patient_data(file).exists THEN load_patient_data(file) ELSE PatientData(now)

\* save_patient_data: stamps updated_at and writes the whole record
save_patient_data(data, now) == [data EXCEPT !.updated_at = now, !.exists = TRUE]

\* the in-memory changes of the manager's methods, by = the writing turn
update_triage_info(data, by) ==
    [data EXCEPT !.triage_info = [set |-> TRUE, by |-> by]]

update_diagnosis_info(data, by) ==
    [data EXCEPT !.diagnosis_info =
        [set |-> TRUE, by |-> by, has_submitted |-> FALSE, submitted_tests |-> <<>>]]

update_expert_consultation(data, by) ==
    [data EXCEPT !.expert_consultation = [set |-> TRUE, by |-> by]]

\* update_patient_info(**kwargs) with one keyword
update_patient_info(data, key, value) ==
    IF key \in DOMAIN data THEN [data EXCEPT ![key] = value] ELSE data

ChatTag(q) == IF q = 1 THEN "q1" ELSE IF q = 2 THEN "q2" ELSE "q3"

add_conversation(data, role, content) ==
    [data EXCEPT !.conversation_history = Append(@, [role |-> role, content |-> content])]

\* the manager calls of a worker node's persistence block, in order
\* (triage_node.py 471-481, recommend_node.py 688-713, experts_node.py 730-744)
ManagerCalls(node) ==
    CASE node = "triage_node" -> <<"update_triage_info", "initial_symptoms">>
      [] node = "recommend_node" -> <<"update_diagnosis_info", "patient_history">>
      [] node = "agen_node" -> <<"update_expert_consultation", "test_results">>
      [] OTHER -> <<>>

UpdateCalls == {"update_triage_info", "update_diagnosis_info", "update_expert_consultation"}

OwnField(call) ==
    CASE call = "update_triage_info" -> "triage_info"
      [] call = "update_diagnosis_info" -> "diagnosis_info"
      [] call = "update_expert_consultation" -> "expert_consultation"
      [] OTHER -> call

\* one manager call on the loaded record
ManagerCall(call, data, q) ==
    CASE call = "update_triage_info" -> update_triage_info(data, q)
      [] call = "update_diagnosis_info" -> update_diagnosis_info(data, q)
      [] call = "update_expert_consultation" -> update_expert_consultation(data, q)
      [] call = "test_results" ->
             update_patient_info(data, call, [set |-> TRUE, val |-> <<<<"report", ChatTag(q)>>>>])
      [] OTHER -> update_patient_info(data, call, ChatTag(q))

\* ---- submitted tests -------------------------------------------------
\* a submitted test: a dict that may lack test_name or result; result is
\* "missing" (no key), "" , "  " (blank), a text, or a number (not a string)
ResultKinds == {"missing", "", "  ", "normal", "number"}

SubmittedTest(has_name, name, result) ==
    [has_name |-> has_name, test_name |-> name, result |-> result]

TestChoices ==
    {SubmittedTest(TRUE, "ct", "normal"), SubmittedTest(TRUE, "mri", "normal"),
     SubmittedTest(FALSE, "None", "normal"),
     SubmittedTest(TRUE, "ct", "missing"), SubmittedTest(TRUE, "ct", ""),
     SubmittedTest(TRUE, "ct", "  "), SubmittedTest(TRUE, "ct", "number")}

TestLists ==
    UNION {[1..n -> TestChoices] : n \in 0..MaxTests}

\* `not test['result']`: the key is there and its value is falsy
Falsy(result) == result = ""

\* "\n\n".join(f"[{test['test_name']}]\n{test['result']}" ...)
ResultsSummary(tests) ==
    [set |-> TRUE, val |-> [i \in 1..Len(tests) |-> <<tests[i].test_name, tests[i].result>>]]

\* the checks of the endpoint before it calls the manager (backend_api.py
\* 271-290); test['result'].strip() raises for a value that is no string
EndpointCheck(file, tests) ==
    IF ~load_patient_data(file).exists THEN 404
    ELSE IF ~load_patient_data(file).diagnosis_info.set THEN 400
    ELSE LET Bad(i) ==
                 \/ ~tests[i].has_name
                 \/ tests[i].result = "missing"
                 \/ Falsy(tests[i].result)
                 \/ tests[i].result = "number"
                 \/ tests[i].result = "  "
             bad == {i \in 1..Len(tests) : Bad(i)}
             first == CHOOSE i \in bad : \A j \in bad : i <= j
         IN  IF bad = {} THEN 200
             ELSE IF /\ tests[first].has_name
                     /\ tests[first].result = "number" THEN 500
             ELSE 400

\* a submit_test_results without the loop over the results
ManagerSubmit_unchecked(data, tests) ==
    IF ~data.diagnosis_info.set
    THEN [raised |-> "ValueError", data |-> data]
    ELSE IF \E i \in 1..Len(tests) : ~tests[i].has_name
    THEN [raised |-> "KeyError", data |-> data]
    ELSE [raised |-> "no",
          data |-> [data EXCEPT !.diagnosis_info.has_submitted = TRUE,
                                !.diagnosis_info.submitted_tests = tests,
                                !.test_results = ResultsSummary(tests)]]

\* PatientDataManager.submit_test_results up to its save (patient_model.py
\* 331-351): the record to save, or the exception raised before the save
ManagerSubmit(data, tests) ==
    IF ~data.diagnosis_info.set
    THEN [raised |-> "ValueError", data |-> data]
    ELSE IF \E i \in 1..Len(tests) :
                tests[i].result = "missing" \/ Falsy(tests[i].result)
    THEN [raised |-> "ValueError", data |-> data]
    ELSE IF \E i \in 1..Len(tests) : ~tests[i].has_name
    THEN [raised |-> "KeyError", data |-> data]
    ELSE [raised |-> "no",
          data |-> [data EXCEPT !.diagnosis_info.has_submitted = TRUE,
                                !.diagnosis_info.submitted_tests = tests,
                                !.test_results = ResultsSummary(tests)]]

IdleChat ==
    [pc |-> "idle", node |-> "none", todo |-> <<>>, call |-> "none",
     data |-> PatientData(0),     \* the record object of the manager call in progress
     before |-> PatientData(0),   \* the file when that call loaded it
     after |-> PatientData(0),    \* the file when that call had saved
     base |-> <<>>]               \* the history when the handler began to append

IdleSubmit ==
    [pc |-> "idle", via |-> "none", tests |-> <<>>, status |-> 0, raised |-> "no",
     data |-> PatientData(0), before |-> PatientData(0), after |-> PatientData(0)]

EmptyRecordStore ==
    [file |-> PatientData(0), clock |-> 0,
     chat |-> [q \in Chats |-> IdleChat],
     started |-> 0,
     submit |-> IdleSubmit, submits |-> 0]

\* ---------------------------------------------------------------------
\* KnowledgeDataManager (Construct/knowledge_data_manager.py): the
\* document folders, the Redis indices, the Neo4j literature sources and
\* the metadata, in memory and in _metadata.json
\* ---------------------------------------------------------------------
MaxKdmCalls == 3

Documents == {"lit-a", "lit b"}

\* document_name.replace(' ', '_').replace('-', '_')
doc_name_safe(doc) == IF doc = "lit-a" THEN "lit_a" ELSE "lit_b"

\* index names, as the prefix followed by the safe document name
KgIndex(doc) == <<"kg_", doc_name_safe(doc)>>
KgEntitiesIndex(doc) == <<"kg_entities_", doc_name_safe(doc)>>
SymptomIndex(doc) == <<"symptom_vectors_", doc_name_safe(doc)>>

IndexNames ==
    UNION {{KgIndex(d), KgEntitiesIndex(d), SymptomIndex(d)} : d \in Documents}
        \cup {<<"kg_", "old">>, <<"symptom_vectors_", "enhanced">>}

\* a manager for which no index name is protected
IsProtectedIndex_never(name) == FALSE

\* `'symptom_vectors_' in index_name`
IsProtectedIndex(name) == Contains(<<"symptom_vectors_">>, name)

NoDocMeta == [registered |-> FALSE, redis_indices |-> <<>>]

\* the names of a list that are in a set, in the order of the list
Found(names, present) == SelectSeq(names, LAMBDA n : n \in present)

\* _detect_redis_indices: the expected names that FT._LIST returns
detect_redis_indices(k, doc) ==
    IF ~k.redis_available THEN <<>>
    ELSE Found(<<KgIndex(doc), KgEntitiesIndex(doc), SymptomIndex(doc)>>, k.redis)

\* register_document: metadata[document_name] = {...}; _save_metadata()
register_document(k, doc, redis_indices) ==
    LET meta == [registered |-> TRUE, redis_indices |-> redis_indices]
    IN  [k EXCEPT !.metadata[doc] = meta, !.file[doc] = meta]

NoKdmResult ==
    [files_deleted |-> FALSE, redis_deleted |-> <<>>, neo4j_deleted |-> FALSE,
     errors |-> 0, orphaned_redis_indices |-> {}, orphaned_neo4j_docs |-> {},
     cleaned |-> FALSE, dry_run |-> FALSE]

\* delete_document: the manager's state after the call and the result
delete_document(k, doc, delete_files, delete_redis, delete_neo4j, dry_run) ==
    LET k1 == IF k.metadata[doc].registered THEN k
              ELSE register_document(k, doc, detect_redis_indices(k, doc))
        doc_meta == k1.metadata[doc]
        has_folder == delete_files /\ doc \in k1.folders
        todo == IF delete_redis /\ k1.redis_available
                THEN SelectSeq(doc_meta.redis_indices, LAMBDA n : ~IsProtectedIndex(n))
                ELSE <<>>
        \* FT.DROPINDEX of a name Redis does not have raises
        dropped == IF dry_run THEN todo ELSE Found(todo, k1.redis)
        with_neo4j == delete_neo4j /\ k1.neo4j_available
        k2 == IF dry_run THEN k1
              ELSE [k1 EXCEPT
                      !.folders = IF has_folder THEN @ \ {doc} ELSE @,
                      !.redis = @ \ {todo[i] : i \in 1..Len(todo)},
                      !.neo4j = IF with_neo4j THEN @ \ {doc} ELSE @,
                      !.metadata[doc] = NoDocMeta,
                      !.file[doc] = NoDocMeta]
    IN  [k |-> k2,
         result |-> [NoKdmResult EXCEPT
                       !.files_deleted = has_folder,
                       !.redis_deleted = dropped,
                       !.neo4j_deleted = with_neo4j,
                       !.errors = Len(todo) - Len(dropped),
                       !.dry_run = dry_run]]

\* cleanup_orphaned_resources
cleanup_orphaned_resources(k, dry_run) ==
    LET registered_docs == {d \in Documents : k.metadata[d].registered}
        orphaned_redis ==
            IF ~k.redis_available THEN {}
            ELSE {n \in k.redis :
                    /\ Head(n) \in {"kg_", "kg_entities_", "symptom_vectors_"}
                    /\ ~IsProtectedIndex(n)
                    /\ ~\E d \in registered_docs : Contains(<<doc_name_safe(d)>>, n)}
        orphaned_neo4j ==
            IF ~k.neo4j_available THEN {} ELSE k.neo4j \ registered_docs
    IN  [k |-> IF dry_run THEN k
               ELSE [k EXCEPT !.redis = @ \ orphaned_redis, !.neo4j = @ \ orphaned_neo4j],
         result |-> [NoKdmResult EXCEPT
                       !.orphaned_redis_indices = orphaned_redis,
                       !.orphaned_neo4j_docs = orphaned_neo4j,
                       !.cleaned = ~dry_run,
                       !.dry_run = dry_run]]

NewManager ==
    [metadata |-> [d \in Documents |-> NoDocMeta],   \* self.metadata
     file |-> [d \in Documents |-> NoDocMeta],       \* _metadata.json
     folders |-> {}, redis |-> {}, neo4j |-> {},
     redis_available |-> FALSE, neo4j_available |-> FALSE]

EmptyKdm ==
    [pc |-> "new", calls |-> 0, op |-> "none", doc |-> "none",
     now |-> NewManager, before |-> NewManager, result |-> NoKdmResult]

VARIABLES
    patients,   \* ids with a stored patient record
    conv,       \* conversation_history of each patient record
    ckpt,       \* InMemorySaver: latest checkpointed State per thread_id
    req,        \* the requests in flight, one per slot
    turns,      \* number of requests accepted so far
    streams,    \* number of those that came through /api/chat/stream
    bridge,     \* the triage_node call in progress: its loop, thread and tasks
    locator,    \* the module-level caches of the nodes and their callers
    pool,       \* triage_node calls of several sessions in flight together
    store,      \* the structured patient records and the node call that wrote last
    experts,    \* one run of the experts sub-graph
    record,     \* patient_data/<id>.json of one patient and the calls working on it
    kdm         \* KnowledgeDataManager: metadata, folders, Redis indices, Neo4j nodes

graphVars == <<patients, conv, ckpt, req, turns, streams>>

vars == <<patients, conv, ckpt, req, turns, streams, bridge, locator, pool, store, experts,
          record, kdm>>

IdleReq ==
    [pc |-> "idle", handler |-> "none", sess |-> "none", turn |-> 0, ex |-> 0,
     input |-> BlankState,
     chan |-> BlankState,    \* channel values of the running graph execution
     view |-> BlankState,    \* the state object handed to the worker node
     entry |-> BlankState,   \* channel values when the worker node was entered
     pre |-> BlankState,     \* checkpoint the execution was loaded from
     typeRes |-> EmptyStr, forced |-> FALSE, route |-> "none",
     outcome |-> "none", delta |-> BlankState, ran |-> <<>>, execs |-> 0]

Init ==
    /\ patients = {}
    /\ conv = [s \in Sessions |-> <<>>]
    /\ ckpt = [s \in Sessions |-> BlankState]
    /\ req = [r \in Slots |-> IdleReq]
    /\ turns = 0
    /\ streams = 0
    /\ bridge = IdleBridge
    /\ locator = EmptyLocator
    /\ pool = EmptyPool
    /\ store = EmptyStore
    /\ experts = IdleExperts
    /\ record = EmptyRecordStore
    /\ kdm = EmptyKdm

\* POST /api/patients
CreatePatient(s) ==
    /\ s \notin patients
    /\ patients' = patients \cup {s}
    /\ UNCHANGED <<conv, ckpt, req, turns, streams, bridge, locator, pool, store, experts, record, kdm>>

FirstIdle(r) == req[r].pc = "idle" /\ \A q \in Slots : q < r => req[q].pc # "idle"

\* a chat request (or one WebSocket message) arrives: the handler loads the
\* patient record and builds input_data.  Turns of one session are sequential.
StartRequest(r, s, h, text) ==
    /\ FirstIdle(r)
    /\ turns < MaxTurns
    /\ s \in patients
    /\ \A q \in Slots : req[q].pc # "idle" => req[q].sess # s
    /\ turns' = turns + 1
    /\ streams' = IF h = "stream" THEN streams + 1 ELSE streams
    /\ req' = [req EXCEPT ![r] =
                 [IdleReq EXCEPT !.pc = "input", !.handler = h, !.sess = s,
                                 !.turn = turns + 1, !.ex = 1,
                                 !.input = InputData(h, s, text, turns + 1, conv[s] = <<>>)]]
    /\ UNCHANGED <<patients, conv, ckpt, bridge, locator, pool, store, experts, record, kdm>>

\* graph.invoke / graph.stream: restore the thread's checkpoint, write the
\* input to the channels, checkpoint
GraphInput(r) ==
    /\ req[r].pc = "input"
    /\ LET t == ThreadId(req[r].input.patient_id)
           chan == Merge(ckpt[t], req[r].input)
       IN  /\ req' = [req EXCEPT ![r].pc = "supervisor", ![r].pre = ckpt[t],
                                 ![r].chan = chan, ![r].ran = <<>>,
                                 ![r].execs = @ + 1]
           /\ ckpt' = [ckpt EXCEPT ![t] = chan]
    /\ UNCHANGED <<patients, conv, turns, streams, bridge, locator, pool, store, experts, record, kdm>>

\* supervisor_node returns; its delta is applied and checkpointed
SupervisorReturns(r) ==
    /\ req[r].pc = "supervisor"
    /\ \E answer \in ClassifierAnswers :
         LET t == ThreadId(req[r].input.patient_id)
             chan == Merge(req[r].chan, supervisor_node(req[r].chan, answer))
         IN  /\ req' = [req EXCEPT ![r].pc = "route", ![r].chan = chan,
                                   ![r].forced = Override(req[r].chan),
                                   ![r].typeRes = IF Override(req[r].chan)
                                                  THEN EmptyStr ELSE answer,
                                   ![r].ran = Append(@, "supervisor_node")]
             /\ ckpt' = [ckpt EXCEPT ![t] = chan]
    /\ UNCHANGED <<patients, conv, turns, streams, bridge, locator, pool, store, experts, record, kdm>>

\* llm.invoke(prompts) raises inside supervisor_node: nothing catches it
\* before graph.invoke
SupervisorRaises(r) ==
    /\ req[r].pc = "supervisor"
    /\ ~Override(req[r].chan)
    /\ req' = [req EXCEPT ![r].pc = "raised", ![r].ran = Append(@, "supervisor_node")]
    /\ UNCHANGED <<patients, conv, ckpt, turns, streams, bridge, locator, pool, store, experts, record, kdm>>

\* the conditional edge, then the selected worker node runs
WorkerRuns(r) ==
    /\ req[r].pc = "route"
    /\ LET node == routing_func(req[r].chan)
       IN  IF node = "__end__"
           THEN /\ req' = [req EXCEPT ![r].pc = "exec_done", ![r].route = node,
                                      ![r].typeRes = EmptyStr]
           ELSE \E outcome \in Outcomes(node), aliased \in BOOLEAN :
                  LET res == RunNode(node, req[r].chan, outcome, req[r].turn, req[r].ex)
                  IN  req' = [req EXCEPT
                                ![r].pc = "apply", ![r].route = node,
                                ![r].typeRes = EmptyStr,
                                ![r].outcome = outcome,
                                ![r].entry = req[r].chan,
                                ![r].view = res.view,
                                ![r].delta = res.delta,
                                \* a list appended to in place is the list the
                                \* channel holds when the library hands it over
                                \* by reference
                                ![r].chan = IF aliased
                                            THEN SetField(@, "messages", @.messages \o res.appended)
                                            ELSE @,
                                ![r].ran = Append(@, node)]
    /\ UNCHANGED <<patients, conv, ckpt, turns, streams, bridge, locator, pool, store, experts, record, kdm>>

\* the node's delta is merged into the channels and checkpointed
ApplyDelta(r) ==
    /\ req[r].pc = "apply"
    /\ LET t == ThreadId(req[r].input.patient_id)
           chan == Merge(req[r].chan, req[r].delta)
       IN  /\ req' = [req EXCEPT ![r].pc = "exec_done", ![r].chan = chan]
           /\ ckpt' = [ckpt EXCEPT ![t] = chan]
    /\ UNCHANGED <<patients, conv, turns, streams, bridge, locator, pool, store, experts, record, kdm>>

\* chat_with_ai_stream: after graph.stream, graph.invoke with the same input
StreamInvokesAgain(r) ==
    /\ req[r].pc = "exec_done"
    /\ req[r].handler = "stream"
    /\ req[r].ex = 1
    /\ req' = [req EXCEPT ![r].pc = "input", ![r].ex = 2]
    /\ UNCHANGED <<patients, conv, ckpt, turns, streams, bridge, locator, pool, store, experts, record, kdm>>

\* the handler stores the exchange and answers
Respond(r) ==
    /\ req[r].pc = "exec_done"
    /\ req[r].handler = "stream" => req[r].ex = 2
    /\ conv' = [conv EXCEPT ![req[r].sess] =
                  @ \o << [role |-> "user", turn |-> req[r].turn],
                          [role |-> "assistant", turn |-> req[r].turn] >>]
    /\ req' = [req EXCEPT ![r] = IdleReq]
    /\ UNCHANGED <<patients, ckpt, turns, streams, bridge, locator, pool, store, experts, record, kdm>>

\* the exception leaves graph.invoke: HTTP 500, an error event, or the
\* WebSocket is closed; nothing is added to the conversation history
RespondError(r) ==
    /\ req[r].pc = "raised"
    /\ req' = [req EXCEPT ![r] = IdleReq]
    /\ UNCHANGED <<patients, conv, ckpt, turns, streams, bridge, locator, pool, store, experts, record, kdm>>

\* POST /api/chat/stream
StartStreamRequest(r, s, text) ==
    /\ streams < MaxStreamTurns
    /\ StartRequest(r, s, "stream", text)

Next ==
    \/ \E s \in Sessions : CreatePatient(s)
    \/ \E r \in Slots, s \in Sessions, h \in {"chat", "ws"}, text \in UserTexts :
          StartRequest(r, s, h, text)
    \/ \E r \in Slots : GraphInput(r)
    \/ \E r \in Slots : SupervisorReturns(r)
    \/ \E r \in Slots : SupervisorRaises(r)
    \/ \E r \in Slots : WorkerRuns(r)
    \/ \E r \in Slots : ApplyDelta(r)
    \/ \E r \in Slots : Respond(r)
    \/ \E r \in Slots : RespondError(r)

\* POST /api/chat and WebSocket messages of two patients, in any interleaving
Spec == Init /\ [][Next]_vars

NextStream ==
    \/ Next
    \/ \E r \in Slots, s \in Sessions, text \in UserTexts : StartStreamRequest(r, s, text)
    \/ \E r \in Slots : StreamInvokesAgain(r)

\* the same, with POST /api/chat/stream added
SpecStream == Init /\ [][NextStream]_vars

\* two requests of one session in flight: the handlers take no lock, so a
\* request is accepted while another request of its session is running
StartOverlappingRequest(r, s, h, text) ==
    /\ FirstIdle(r)
    /\ turns < MaxTurns
    /\ s \in patients
    /\ \E q \in Slots : req[q].pc # "idle" /\ req[q].sess = s
    /\ turns' = turns + 1
    /\ req' = [req EXCEPT ![r] =
                 [IdleReq EXCEPT !.pc = "input", !.handler = h, !.sess = s,
                                 !.turn = turns + 1, !.ex = 1,
                                 !.input = InputData(h, s, text, turns + 1, conv[s] = <<>>)]]
    /\ UNCHANGED <<patients, conv, ckpt, streams, bridge, locator, pool, store, experts, record, kdm>>

NextOverlap ==
    \/ Next
    \/ \E r \in Slots, s \in Sessions, h \in {"chat", "ws"}, text \in UserTexts :
          StartOverlappingRequest(r, s, h, text)

\* the chat handlers with requests of one session allowed to overlap
SpecOverlap == Init /\ [][NextOverlap]_vars

\* a session of more turns: the requests of one patient, one after another
MaxSessionTurns == 3

StartSessionRequest(r, s, h, text) ==
    /\ FirstIdle(r)
    /\ turns < MaxSessionTurns
    /\ s \in patients
    /\ \A q \in Slots : req[q].pc = "idle"
    /\ turns' = turns + 1
    /\ req' = [req EXCEPT ![r] =
                 [IdleReq EXCEPT !.pc = "input", !.handler = h, !.sess = s,
                                 !.turn = turns + 1, !.ex = 1,
                                 !.input = InputData(h, s, text, turns + 1, conv[s] = <<>>)]]
    /\ UNCHANGED <<patients, conv, ckpt, streams, bridge, locator, pool, store, experts, record, kdm>>

NextSession ==
    \/ \E s \in {"p1"} : CreatePatient(s)
    \/ \E r \in Slots, s \in {"p1"}, h \in {"chat", "ws"}, text \in UserTexts :
          StartSessionRequest(r, s, h, text)
    \/ \E r \in Slots : GraphInput(r)
    \/ \E r \in Slots : SupervisorReturns(r)
    \/ \E r \in Slots : SupervisorRaises(r)
    \/ \E r \in Slots : WorkerRuns(r)
    \/ \E r \in Slots : ApplyDelta(r)
    \/ \E r \in Slots : Respond(r)
    \/ \E r \in Slots : RespondError(r)

\* POST /api/chat and WebSocket messages of one patient, over more turns
SpecSession == Init /\ [][NextSession]_vars

\* ---------------------------------------------------------------------
\* One call of triage_node, from the bridge's point of view
\* ---------------------------------------------------------------------
MaxCalls == 2

\* triage_node is called: with a running loop on the calling thread the
\* operation is submitted to a worker thread with its own loop and the
\* caller waits in future.result(timeout=180); without one the caller runs
\* loop.run_until_complete on a new loop itself
CallTriage(path, fate1, fate2) ==
    /\ bridge.pc \in {"idle", "returned"}
    /\ bridge.call < MaxCalls
    /\ bridge' = [IdleBridge EXCEPT
                    !.pc = "running", !.path = path, !.call = bridge.call + 1,
                    !.tasks = <<NewTask(fate1), NewTask(fate2)>>,
                    !.loop = "open",
                    !.thread = IF path = "thread" THEN "alive" ELSE "none",
                    !.caller = "waiting"]
    /\ UNCHANGED <<graphVars, locator, pool, store, experts, record, kdm>>

\* task i returns or raises while the loop runs the operation; gather and
\* ParallelTriageNode.__call__ resume as soon as they can
TaskEnds(i) ==
    /\ bridge.pc = "running"
    /\ bridge.loop = "open"
    /\ bridge.op = Pending
    /\ bridge.tasks[i].state = "running"
    /\ bridge.tasks[i].fate # "hang"
    /\ LET tasks == [bridge.tasks EXCEPT ![i].state =
                        IF bridge.tasks[i].fate = "ok" THEN "done" ELSE "failed"]
           order == Append(bridge.order, i)
       IN  bridge' = [bridge EXCEPT
                        !.tasks = tasks, !.order = order,
                        !.op = ParallelTriageNode(tasks, order, Tag(bridge.call, 1))]
    /\ UNCHANGED <<graphVars, locator, pool, store, experts, record, kdm>>

\* 180 s pass while the caller waits: future.result raises TimeoutError and
\* the `with ThreadPoolExecutor` block is left through shutdown(wait=True);
\* run_until_complete of the direct path has no timeout
DeadlinePasses ==
    /\ bridge.pc = "running"
    /\ bridge.loop = "open"
    /\ bridge.caller = "waiting"
    /\ ~bridge.deadline
    /\ bridge' = [bridge EXCEPT
                    !.deadline = TRUE,
                    !.caller = IF bridge.path = "thread" THEN "joining" ELSE "waiting"]
    /\ UNCHANGED <<graphVars, locator, pool, store, experts, record, kdm>>

\* run_until_complete(parallel_triage(parallel_state)) returns or raises;
\* the finally block cleans the loop up and closes it, and on the thread
\* path the worker thread ends
RunUntilCompleteEnds ==
    /\ bridge.pc = "running"
    /\ bridge.loop = "open"
    /\ bridge.op # Pending
    /\ bridge' = [bridge EXCEPT
                    !.tasks = LoopCleanup(bridge.tasks),
                    !.loop = "closed",
                    !.thread = IF bridge.path = "thread" THEN "terminated" ELSE "none"]
    /\ UNCHANGED <<graphVars, locator, pool, store, experts, record, kdm>>

\* the caller continues: triage_node returns its delta
TriageReturns ==
    /\ bridge.pc = "running"
    /\ bridge.loop = "closed"
    /\ LET surfaced == TriageBridge(bridge.path, bridge.op, bridge.caller = "joining")
       IN  bridge' = [bridge EXCEPT
                        !.pc = "returned", !.caller = "returned",
                        !.surfaced = surfaced,
                        !.delta = TriageDelta(surfaced, bridge.call)]
    /\ UNCHANGED <<graphVars, locator, pool, store, experts, record, kdm>>

NextBridge ==
    \/ \E path \in BridgePaths, fate1, fate2 \in TaskFates : CallTriage(path, fate1, fate2)
    \/ \E i \in 1..2 : TaskEnds(i)
    \/ DeadlinePasses
    \/ RunUntilCompleteEnds
    \/ TriageReturns

\* calls of triage_node, one at a time, on either path
SpecBridge == Init /\ [][NextBridge]_vars

\* ---------------------------------------------------------------------
\* Concurrent calls of triage_node (triage_node.py 376-425)
\* ---------------------------------------------------------------------
\* call k enters the bridge: a new loop, and parallel_triage starts its two
\* triage tasks on it
PoolCall(k, path, fate1, fate2) ==
    /\ pool.calls[k].pc \in {"idle", "returned"}
    /\ pool.created < MaxPoolLoops
    /\ LET loop == new_event_loop(pool.created)
       IN  pool' = [pool EXCEPT
                      !.created = @ + 1,
                      !.calls[k] = [pc |-> "running", path |-> path, loop |-> loop],
                      !.tasks[k] = [i \in 1..2 |->
                                      PoolTask(loop, IF i = 1 THEN fate1 ELSE fate2)]]
    /\ UNCHANGED <<graphVars, bridge, locator, store, experts, record, kdm>>

\* the loop of a task runs it to its end; a closed loop runs nothing
PoolTaskEnds(k, i) ==
    /\ pool.tasks[k][i].state = "running"
    /\ pool.tasks[k][i].loop \notin pool.closed
    /\ pool.calls[k].pc = "running"
    /\ ~PoolOpEnded(pool.tasks[k])
    /\ pool' = [pool EXCEPT !.tasks[k][i].state =
                    IF pool.tasks[k][i].fate = "ok" THEN "done" ELSE "failed"]
    /\ UNCHANGED <<graphVars, bridge, locator, store, experts, record, kdm>>

\* run_until_complete of call k has ended; its finally block cancels
\* asyncio.all_tasks(loop) and closes the loop
PoolCleanup(k) ==
    /\ pool.calls[k].pc = "running"
    /\ PoolOpEnded(pool.tasks[k]) \/ pool.calls[k].loop \in pool.closed
    /\ LET loop == pool.calls[k].loop
       IN  pool' = [pool EXCEPT
                      !.tasks = CancelAll(pool.tasks, all_tasks(pool.tasks, loop)),
                      !.closed = @ \cup {loop},
                      !.calls[k].pc = "cleaned"]
    /\ UNCHANGED <<graphVars, bridge, locator, store, experts, record, kdm>>

\* triage_node of call k returns
PoolReturn(k) ==
    /\ pool.calls[k].pc = "cleaned"
    /\ pool' = [pool EXCEPT !.calls[k].pc = "returned"]
    /\ UNCHANGED <<graphVars, bridge, locator, store, experts, record, kdm>>

NextPool ==
    \/ \E k \in PoolCalls, path \in BridgePaths, fate1, fate2 \in {"ok", "raise"} :
            PoolCall(k, path, fate1, fate2)
    \/ \E k \in PoolCalls, i \in 1..2 : PoolTaskEnds(k, i)
    \/ \E k \in PoolCalls : PoolCleanup(k)
    \/ \E k \in PoolCalls : PoolReturn(k)

\* triage_node calls of several sessions, overlapping
SpecPool == Init /\ [][NextPool]_vars

\* ---------------------------------------------------------------------
\* A worker node and the patient record
\* ---------------------------------------------------------------------
\* a worker node is called; patient_manager will succeed or raise
StoreNodeCalled(node, text, triaged, has_id, outcome, pm) ==
    /\ store.call.pc \in {"idle", "returned"}
    /\ store.calls < MaxStoreCalls
    /\ store' = [store EXCEPT
                    !.calls = @ + 1,
                    !.call = [IdleStoreCall EXCEPT
                                !.pc = "called", !.node = node,
                                !.st = StoreEntry(text, triaged, has_id),
                                !.outcome = outcome, !.pm = pm]]
    /\ UNCHANGED <<graphVars, bridge, locator, pool, experts, record, kdm>>

\* the node does its work, runs its persistence block and returns
StoreNodeReturns ==
    /\ store.call.pc = "called"
    /\ LET c == store.call
           r == NodeWithSave(c.node, c.st, c.outcome, store.calls, c.pm)
       IN  store' = [store EXCEPT
                       !.call.pc = "returned",
                       !.call.delta = r.delta,
                       !.records = IF r.written THEN @ \cup {c.node} ELSE @]
    /\ UNCHANGED <<graphVars, bridge, locator, pool, experts, record, kdm>>

NextStore ==
    \/ \E node \in StoreNodes, text \in UserTexts, triaged, has_id \in BOOLEAN,
          pm \in StoreFates :
            \E outcome \in Outcomes(node) :
                StoreNodeCalled(node, text, triaged, has_id, outcome, pm)
    \/ StoreNodeReturns

\* worker nodes called one after another, with a patient store that may fail
SpecStore == Init /\ [][NextStore]_vars

\* ---------------------------------------------------------------------
\* One run of experts_graph.invoke(expert_input) (experts_node.py 691)
\* ---------------------------------------------------------------------
ExpertsInvoke(fates) ==
    /\ experts.pc \in {"idle", "done"}
    /\ experts.run < MaxExpertRuns
    /\ experts' = [IdleExperts EXCEPT
                      !.pc = "running", !.run = experts.run + 1,
                      !.fates = fates,
                      !.step = 1,
                      !.active = Triggered({START})]
    /\ UNCHANGED <<graphVars, bridge, locator, pool, store, record, kdm>>

\* a node of the current step is called with the state of the step's start
ExpertStarts(n) ==
    /\ experts.pc = "running"
    /\ n \in experts.active \ experts.started
    /\ experts' = [experts EXCEPT
                      !.started = @ \cup {n},
                      !.views[n] = experts.state,
                      !.stepOf[n] = experts.step,
                      !.log = Append(@, <<"call", n>>)]
    /\ UNCHANGED <<graphVars, bridge, locator, pool, store, record, kdm>>

\* the node returns its delta
ExpertReturns(n) ==
    /\ experts.pc = "running"
    /\ n \in experts.started \ experts.returned
    /\ experts' = [experts EXCEPT
                      !.returned = @ \cup {n},
                      !.writes[n] = SubGraphNode(n, experts.views[n], experts.fates[n],
                                                 experts.run),
                      !.log = Append(@, <<"return", n>>)]
    /\ UNCHANGED <<graphVars, bridge, locator, pool, store, record, kdm>>

\* every node of the step has returned: the writes are applied and the next
\* step is made of the nodes they trigger; with none left, invoke returns
\* and experts_node reads final_report (694)
ExpertsStepEnds ==
    /\ experts.pc = "running"
    /\ experts.active # {}
    /\ experts.returned = experts.active
    /\ LET state == ApplyWrites(experts.state, experts.writes, experts.active)
           next == Triggered(experts.active)
       IN  experts' = [experts EXCEPT
                         !.state = state,
                         !.applied = @ \cup experts.active,
                         !.step = @ + 1,
                         !.active = next,
                         !.started = {}, !.returned = {},
                         !.pc = IF next = {} THEN "done" ELSE "running",
                         !.result = IF next = {} THEN state.final_report ELSE @]
    /\ UNCHANGED <<graphVars, bridge, locator, pool, store, record, kdm>>

NextExperts ==
    \/ \E fates \in [SubGraphNodes -> ExpertFates] : ExpertsInvoke(fates)
    \/ \E n \in SubGraphNodes : ExpertStarts(n)
    \/ \E n \in SubGraphNodes : ExpertReturns(n)
    \/ ExpertsStepEnds

\* runs of the experts sub-graph
SpecExperts == Init /\ [][NextExperts]_vars

\* ---------------------------------------------------------------------
\* Threads calling get_or_create_components (triage_node.py) and
\* get_or_create_medical_analysis_node (recommend_node.py)
\* ---------------------------------------------------------------------
LocatorCall(c, fn) ==
    /\ locator.callers[c].pc \in {"idle", "done"}
    /\ locator.calls < MaxLocatorCalls
    /\ locator' = [locator EXCEPT
                     !.calls = @ + 1,
                     !.callers[c] = [IdleCaller EXCEPT !.pc = "check", !.fn = fn,
                                                       !.after = locator.returned[fn]]]
    /\ UNCHANGED <<graphVars, bridge, pool, store, experts, record, kdm>>

\* the test of the cache; get_or_create_components assigns _llm before it
\* initializes the MCP client
LocatorCheck(c) ==
    /\ locator.callers[c].pc = "check"
    /\ IF locator.callers[c].fn = "components"
       THEN IF ComponentsMissing(locator.triage)
            THEN locator' = [locator EXCEPT
                               !.llms = @ + 1,
                               !.triage.llm = locator.llms + 1,
                               !.callers[c].pc = "init"]
            ELSE locator' = [locator EXCEPT !.callers[c].pc = "return"]
       ELSE IF NodeMissing(locator.recommend)
            THEN IF ClientMissing(locator.recommend)
                 THEN locator' = [locator EXCEPT !.callers[c].pc = "init"]
                 ELSE locator' = [locator EXCEPT !.callers[c].pc = "build"]
            ELSE locator' = [locator EXCEPT !.callers[c].pc = "return"]
    /\ UNCHANGED <<graphVars, bridge, pool, store, experts, record, kdm>>

\* initialize_mcp_client() has run: a MultiServerMCPClient was constructed
\* and client.get_tools() returned (ok) or raised
LocatorInit(c, ok) ==
    /\ locator.callers[c].pc = "init"
    /\ LET fn == locator.callers[c].fn
           id == locator.clients[fn] + 1
           client == IF ok THEN id ELSE 0
           tools == IF ok THEN ToolsOf(id) ELSE ToolsEmpty
       IN  IF fn = "components"
           THEN locator' = [locator EXCEPT
                              !.clients[fn] = id,
                              !.triage.client = client, !.triage.tools = tools,
                              !.callers[c].tried = IF ok THEN "ok" ELSE "fail",
                              !.callers[c].pc = "return"]
           ELSE locator' = [locator EXCEPT
                              !.clients[fn] = id,
                              !.recommend.client = client, !.recommend.tools = tools,
                              !.callers[c].tried = IF ok THEN "ok" ELSE "fail",
                              !.callers[c].pc = "build"]
    /\ UNCHANGED <<graphVars, bridge, pool, store, experts, record, kdm>>

\* _medical_analysis_node = MedicalAnalysisNode(mcp_tools=_mcp_tools)
LocatorBuild(c) ==
    /\ locator.callers[c].pc = "build"
    /\ locator' = [locator EXCEPT
                     !.nodes = @ + 1,
                     !.recommend.node = [id |-> locator.nodes + 1,
                                         tools |-> locator.recommend.tools],
                     !.callers[c].pc = "return"]
    /\ UNCHANGED <<graphVars, bridge, pool, store, experts, record, kdm>>

\* return _llm, _mcp_client, _mcp_tools / return _medical_analysis_node
LocatorReturn(c) ==
    /\ locator.callers[c].pc = "return"
    /\ locator' = [locator EXCEPT
                     !.callers[c].pc = "done",
                     !.returned[locator.callers[c].fn] = TRUE,
                     !.callers[c].got =
                        IF locator.callers[c].fn = "components"
                        THEN [NothingGot EXCEPT !.llm = locator.triage.llm,
                                                !.client = locator.triage.client,
                                                !.tools = locator.triage.tools]
                        ELSE [NothingGot EXCEPT !.node = locator.recommend.node]]
    /\ UNCHANGED <<graphVars, bridge, pool, store, experts, record, kdm>>

NextLocator ==
    \/ \E c \in Callers, fn \in LocatorFns : LocatorCall(c, fn)
    \/ \E c \in Callers : LocatorCheck(c)
    \/ \E c \in Callers, ok \in BOOLEAN : LocatorInit(c, ok)
    \/ \E c \in Callers : LocatorBuild(c)
    \/ \E c \in Callers : LocatorReturn(c)

\* threads of the backend's pools using the two lazy getters
SpecLocator == Init /\ [][NextLocator]_vars

\* ---------------------------------------------------------------------
\* The patient record under chat requests and submitted test results
\* ---------------------------------------------------------------------
\* no handler is inside a synchronous section on the event loop
LoopFree ==
    /\ \A q \in Chats : record.chat[q].pc \notin {"u_loaded", "u_saved", "a_loaded"}
    /\ record.submit.pc # "loaded"

\* POST /api/patients (backend_api.py 197-219)
RecordCreatePatient ==
    /\ LoopFree
    /\ ~record.file.exists
    /\ record' = [record EXCEPT
                    !.clock = @ + 1,
                    !.file = save_patient_data(
                                 [PatientData(record.clock + 1) EXCEPT !.patient_name = "name"],
                                 record.clock + 1)]
    /\ UNCHANGED <<graphVars, bridge, locator, pool, store, experts, kdm>>

\* POST /api/chat up to run_in_executor (backend_api.py 316-352); raises:
\* graph.invoke will raise before a worker node reaches its manager calls
ChatStarts(q, node, raises) ==
    /\ LoopFree
    /\ q = record.started + 1
    /\ record.chat[q].pc = "idle"
    /\ load_patient_data(record.file).exists
    /\ record' = [record EXCEPT
                    !.started = q,
                    !.chat[q] = [IdleChat EXCEPT
                                   !.pc = "graph", !.node = node,
                                   !.call = IF raises THEN "raise" ELSE "none",
                                   !.todo = IF raises THEN <<>> ELSE ManagerCalls(node)]]
    /\ UNCHANGED <<graphVars, bridge, locator, pool, store, experts, kdm>>

\* the worker thread enters a manager call: create_or_load_patient and the
\* change of the loaded object
WorkerLoads(q) ==
    /\ record.chat[q].pc = "graph"
    /\ record.chat[q].todo # <<>>
    /\ record' = [record EXCEPT
                    !.chat[q].pc = "w_loaded",
                    !.chat[q].call = Head(record.chat[q].todo),
                    !.chat[q].before = record.file,
                    !.chat[q].data =
                        ManagerCall(Head(record.chat[q].todo),
                                    create_or_load_patient(record.file, record.clock), q)]
    /\ UNCHANGED <<graphVars, bridge, locator, pool, store, experts, kdm>>

\* the worker thread's save_patient_data
WorkerSaves(q) ==
    /\ record.chat[q].pc = "w_loaded"
    /\ LET saved == save_patient_data(record.chat[q].data, record.clock + 1)
       IN  record' = [record EXCEPT
                        !.clock = @ + 1,
                        !.file = saved,
                        !.chat[q].pc = "graph",
                        !.chat[q].after = saved,
                        !.chat[q].todo = Tail(@)]
    /\ UNCHANGED <<graphVars, bridge, locator, pool, store, experts, kdm>>

\* graph.invoke ends: the future is done, or the handler answers 500
GraphReturns(q) ==
    /\ record.chat[q].pc = "graph"
    /\ record.chat[q].todo = <<>>
    /\ record' = [record EXCEPT
                    !.chat[q].pc = IF record.chat[q].call = "raise" THEN "failed" ELSE "returned"]
    /\ UNCHANGED <<graphVars, bridge, locator, pool, store, experts, kdm>>

\* add_conversation(patient_id, "user" | "assistant", ...) up to its save
\* (backend_api.py 386-387, patient_model.py 289-295)
AddConversationLoads(q) ==
    /\ \/ record.chat[q].pc = "returned" /\ LoopFree
       \/ record.chat[q].pc = "u_saved"
    /\ LET first == record.chat[q].pc = "returned"
       IN  record' = [record EXCEPT
                        !.chat[q].pc = IF first THEN "u_loaded" ELSE "a_loaded",
                        !.chat[q].call = "add_conversation",
                        !.chat[q].base = IF first THEN record.file.conversation_history ELSE @,
                        !.chat[q].before = record.file,
                        !.chat[q].data =
                            add_conversation(create_or_load_patient(record.file, record.clock),
                                             IF first THEN "user" ELSE "assistant", ChatTag(q))]
    /\ UNCHANGED <<graphVars, bridge, locator, pool, store, experts, kdm>>

\* the save of add_conversation; after the second one the handler answers
AddConversationSaves(q) ==
    /\ record.chat[q].pc \in {"u_loaded", "a_loaded"}
    /\ LET saved == save_patient_data(record.chat[q].data, record.clock + 1)
       IN  record' = [record EXCEPT
                        !.clock = @ + 1,
                        !.file = saved,
                        !.chat[q].after = saved,
                        !.chat[q].pc = IF record.chat[q].pc = "u_loaded" THEN "u_saved" ELSE "done"]
    /\ UNCHANGED <<graphVars, bridge, locator, pool, store, experts, kdm>>

\* submit_test_results up to the save: through POST .../submit-tests
\* (backend_api.py 266-308) or as a call of the manager's method
SubmitCalled(via, tests) ==
    /\ LoopFree
    /\ record.submits < MaxSubmits
    /\ record.submit.pc \in {"idle", "done"}
    /\ LET status == IF via = "endpoint" THEN EndpointCheck(record.file, tests) ELSE 200
           m == ManagerSubmit(create_or_load_patient(record.file, record.clock), tests)
           code == IF status # 200 THEN status
                   ELSE IF m.raised = "ValueError" THEN 400
                   ELSE IF m.raised = "KeyError" THEN 500
                   ELSE 200
       IN  record' = [record EXCEPT
                        !.submits = @ + 1,
                        !.submit = [pc |-> IF code = 200 THEN "loaded" ELSE "done",
                                    via |-> via,
                                    tests |-> tests, status |-> code,
                                    raised |-> IF status # 200 THEN "HTTPException" ELSE m.raised,
                                    data |-> m.data,
                                    before |-> record.file, after |-> record.file]]
    /\ UNCHANGED <<graphVars, bridge, locator, pool, store, experts, kdm>>

\* the save of submit_test_results
SubmitSaves ==
    /\ record.submit.pc = "loaded"
    /\ LET saved == save_patient_data(record.submit.data, record.clock + 1)
       IN  record' = [record EXCEPT
                        !.clock = @ + 1,
                        !.file = saved,
                        !.submit.pc = "done",
                        !.submit.after = saved]
    /\ UNCHANGED <<graphVars, bridge, locator, pool, store, experts, kdm>>

NextRecord ==
    \/ RecordCreatePatient
    \/ \E q \in Chats, node \in WorkerNodes, raises \in BOOLEAN : ChatStarts(q, node, raises)
    \/ \E q \in Chats : WorkerLoads(q)
    \/ \E q \in Chats : WorkerSaves(q)
    \/ \E q \in Chats : GraphReturns(q)
    \/ \E q \in Chats : AddConversationLoads(q)
    \/ \E q \in Chats : AddConversationSaves(q)

\* chat requests for one patient, in flight together or one after another
SpecRecord == Init /\ [][NextRecord]_vars

NextSubmit ==
    \/ RecordCreatePatient
    \/ \E node \in WorkerNodes, raises \in BOOLEAN : ChatStarts(1, node, raises)
    \/ WorkerLoads(1)
    \/ WorkerSaves(1)
    \/ GraphReturns(1)
    \/ AddConversationLoads(1)
    \/ AddConversationSaves(1)
    \/ \E via \in {"endpoint", "manager"}, tests \in TestLists : SubmitCalled(via, tests)
    \/ SubmitSaves

\* test results submitted before, during or after one chat request
SpecSubmit == Init /\ [][NextSubmit]_vars

\* ---------------------------------------------------------------------
\* KnowledgeDataManager: construction, the build of a document, deletion
\* and the clean-up of orphaned resources
\* ---------------------------------------------------------------------
\* __init__: the two connections are tried once (knowledge_data_manager.py 66-90)
KdmConnects(redis_ok, neo4j_ok) ==
    /\ kdm.pc = "new"
    /\ kdm' = [kdm EXCEPT !.pc = "ready",
                          !.now.redis_available = redis_ok,
                          !.now.neo4j_available = neo4j_ok]
    /\ UNCHANGED <<graphVars, bridge, locator, pool, store, experts, record>>

\* the build of a document's knowledge graph (backend_api.py 890-981): its
\* folder and literature source, the indices whose vectorisation succeeded,
\* and the registration with those indices when it did not fail
KdmBuilds(doc, symptom_ok, rag_ok, registers) ==
    /\ kdm.pc = "ready"
    /\ kdm.calls < MaxKdmCalls
    /\ LET k1 == [kdm.now EXCEPT
                    !.folders = @ \cup {doc},
                    !.neo4j = @ \cup {doc},
                    !.redis = @ \cup (IF symptom_ok THEN {SymptomIndex(doc)} ELSE {})
                                \cup (IF rag_ok THEN {KgIndex(doc)} ELSE {})]
           indices == (IF rag_ok THEN <<KgIndex(doc)>> ELSE <<>>)
                        \o (IF symptom_ok THEN <<SymptomIndex(doc)>> ELSE <<>>)
           k2 == IF registers THEN register_document(k1, doc, indices) ELSE k1
       IN  kdm' = [kdm EXCEPT !.calls = @ + 1, !.op = "build", !.doc = doc,
                              !.before = kdm.now, !.now = k2, !.result = NoKdmResult]
    /\ UNCHANGED <<graphVars, bridge, locator, pool, store, experts, record>>

\* an index made outside the manager: symptom_vectors_enhanced of the
\* symptom vectoriser, or an index left by an earlier version
KdmIndexAppears(name) ==
    /\ kdm.pc = "ready"
    /\ kdm.calls < MaxKdmCalls
    /\ name \notin kdm.now.redis
    /\ kdm' = [kdm EXCEPT !.calls = @ + 1, !.op = "index", !.doc = "none",
                          !.before = kdm.now,
                          !.now.redis = @ \cup {name}, !.result = NoKdmResult]
    /\ UNCHANGED <<graphVars, bridge, locator, pool, store, experts, record>>

KdmDeletes(doc, delete_files, delete_redis, delete_neo4j, dry_run) ==
    /\ kdm.pc = "ready"
    /\ kdm.calls < MaxKdmCalls
    /\ LET r == delete_document(kdm.now, doc, delete_files, delete_redis, delete_neo4j, dry_run)
       IN  kdm' = [kdm EXCEPT !.calls = @ + 1, !.op = "delete_document", !.doc = doc,
                              !.before = kdm.now, !.now = r.k, !.result = r.result]
    /\ UNCHANGED <<graphVars, bridge, locator, pool, store, experts, record>>

KdmCleansUp(dry_run) ==
    /\ kdm.pc = "ready"
    /\ kdm.calls < MaxKdmCalls
    /\ LET r == cleanup_orphaned_resources(kdm.now, dry_run)
       IN  kdm' = [kdm EXCEPT !.calls = @ + 1, !.op = "cleanup_orphaned_resources",
                              !.doc = "none",
                              !.before = kdm.now, !.now = r.k, !.result = r.result]
    /\ UNCHANGED <<graphVars, bridge, locator, pool, store, experts, record>>

NextKdm ==
    \/ \E redis_ok, neo4j_ok \in BOOLEAN : KdmConnects(redis_ok, neo4j_ok)
    \/ \E doc \in Documents, symptom_ok, rag_ok, registers \in BOOLEAN :
          KdmBuilds(doc, symptom_ok, rag_ok, registers)
    \/ \E name \in {<<"kg_", "old">>, <<"symptom_vectors_", "enhanced">>} : KdmIndexAppears(name)
    \/ \E doc \in Documents, delete_files, delete_redis, delete_neo4j, dry_run \in BOOLEAN :
          KdmDeletes(doc, delete_files, delete_redis, delete_neo4j, dry_run)
    \/ \E dry_run \in BOOLEAN : KdmCleansUp(dry_run)

SpecKdm == Init /\ [][NextKdm]_vars

\* ---------------------------------------------------------------------
\* Properties
\* ---------------------------------------------------------------------
Range(seq) == {seq[i] : i \in 1..Len(seq)}

Active == {r \in Slots : req[r].pc # "idle"}

\* the checkpoint of the thread request r runs on
CkptOf(r) == ckpt[ThreadId(req[r].input.patient_id)]

NoFreshPhrase(text) ==
    \A p \in {PhraseChuXian, PhraseZhuSu, PhraseZhengZhuang} : ~Contains(p, text)

\* triaged, no diagnosis stored, and the new message is not a fresh report
AwaitingDiagnosis(st) ==
    /\ "has_triaged" \in DOMAIN st
    /\ st.has_triaged = TRUE
    /\ ("analysis_result" \in DOMAIN st => st.analysis_result = {})
    /\ NoFreshPhrase(Last(st.messages).content)

\* C1: whenever supervisor_node has returned for a state in which has_triaged
\* is true, analysis_result is absent or empty and the new message contains
\* none of the three fresh-report phrases, the type it wrote is
\* recommend_node and the conditional edge selects recommend_node, whatever
\* the classifier would have answered; the classifier is not even consulted,
\* so its failure cannot abort such a turn.
C1_RouterOverride ==
    \A r \in Slots :
        AwaitingDiagnosis(req[r].chan) =>
            /\ req[r].pc = "route" =>
                  /\ req[r].chan.type = TypeRecommend
                  /\ routing_func(req[r].chan) = "recommend_node"
            /\ req[r].pc # "raised"

C1_Witness ==
    \E r \in Slots :
        /\ req[r].pc = "route"
        /\ AwaitingDiagnosis(req[r].chan)
        /\ req[r].chan.triage1_result # EmptyStr
        /\ routing_func(req[r].chan) = "recommend_node"

\* C2: for every answer of the classifier, after supervisor_node the type is
\* one of the four identifiers of `nodes` and routing_func selects one of the
\* four worker nodes; an answer that, stripped, is not in `nodes` selects
\* other_node, and an answer in `nodes` selects the node it names.
C2_RoutingTotal ==
    \A r \in Slots :
        req[r].pc = "route" =>
            /\ req[r].chan.type \in nodes
            /\ routing_func(req[r].chan) \in WorkerNodes
            /\ ~req[r].forced =>
                 LET typeRes == Strip(req[r].typeRes)
                 IN  /\ typeRes \notin nodes => routing_func(req[r].chan) = "other_node"
                     /\ typeRes = TypeTriage => routing_func(req[r].chan) = "triage_node"
                     /\ typeRes = TypeRecommend => routing_func(req[r].chan) = "recommend_node"
                     /\ typeRes = TypeAgen => routing_func(req[r].chan) = "agen_node"
                     /\ typeRes = TypeOther => routing_func(req[r].chan) = "other_node"

C2_Witness ==
    \E r \in Slots :
        /\ req[r].pc = "route"
        /\ ~req[r].forced
        /\ req[r].typeRes = END
        /\ routing_func(req[r].chan) = "other_node"

\* C3: the nodes a graph execution has run are always a prefix of
\* <<supervisor_node, one worker node>>, and an execution that has reached
\* END has run exactly these two: none reaches END with no worker node, runs
\* two worker nodes or runs the supervisor twice.
C3_SingleDispatch ==
    \A r \in Slots :
        LET ran == req[r].ran
        IN  /\ Len(ran) <= 2
            /\ Len(ran) >= 1 => ran[1] = "supervisor_node"
            /\ Len(ran) = 2 => ran[2] \in WorkerNodes
            /\ req[r].pc \in {"apply", "exec_done"} => Len(ran) = 2
            /\ req[r].pc = "route" => ran = <<"supervisor_node">>

C3_Witness ==
    \E r \in Slots :
        /\ req[r].pc = "exec_done"
        /\ req[r].ran = <<"supervisor_node", "other_node">>
        /\ req[r].route = "other_node"

KeptFields ==
    {"has_triaged", "triage1_result", "triage2_result", "combined_analysis",
     "triage_questions", "analysis_result", "patient_id"}

IsErrorMessage(m) ==
    m.author \in WorkerNodes /\
    m.content \in {<<"error:triage">>, <<"error:analysis">>, <<"error:recommend">>,
                   <<"error:experts">>, <<"error:query">>}

\* C4: after an execution whose worker node raised internally, the session
\* state holds every field it had before the turn with the same value, and
\* its messages are the prior messages, the new user message and one error
\* message.
C4_NodeFailureKeepsState ==
    \A r \in Slots :
        (req[r].pc = "exec_done" /\ req[r].outcome \in FailureOutcomes) =>
            LET before == req[r].pre
                after == CkptOf(r)
            IN  /\ \A f \in KeptFields \cap DOMAIN before :
                      f \in DOMAIN after /\ after[f] = before[f]
                /\ Len(after.messages) = Len(before.messages) + 2
                /\ SubSeq(after.messages, 1, Len(before.messages) + 1)
                      = before.messages \o req[r].input.messages
                /\ IsErrorMessage(Last(after.messages))

\* C5: an exception of the classifier call never leaves the graph execution.
C5_ClassifierFailureContained ==
    \A r \in Slots : req[r].pc # "raised"

\* C6: after an execution, the session's messages are the messages before
\* the turn, the new user message and then the node's new messages, none of
\* which was in the history already.
C6_MessagesAppendOnly ==
    \A r \in Slots :
        req[r].pc = "exec_done" =>
            LET before == req[r].pre.messages \o req[r].input.messages
                after == CkptOf(r).messages
            IN  /\ Len(after) > Len(before)
                /\ SubSeq(after, 1, Len(before)) = before
                /\ \A i \in (Len(before) + 1)..Len(after) : after[i] \notin Range(before)

\* C7: when a worker node returns, the state object it was given and the
\* graph's channel values are what they were when it was entered.
C7_NodeLeavesStateAlone ==
    \A r \in Slots :
        req[r].pc = "apply" =>
            /\ req[r].view = req[r].entry
            /\ req[r].chan = req[r].entry

\* C8: a request causes one graph execution.
C8_OneExecutionPerRequest ==
    \A r \in Slots : req[r].execs <= 1

TriageFields ==
    {"triage1_result", "triage2_result", "combined_analysis", "triage_questions"}

\* the four triage fields are the ones one triage execution wrote
WrittenByTriage(st) ==
    \E tag \in Range(Tags) :
        /\ st.triage1_result = Triage1Out(tag)
        /\ st.triage2_result = Triage2Out(tag)
        /\ st.combined_analysis = combine_results(Triage1Out(tag), Triage2Out(tag))
        /\ st.triage_questions = TriageQuestions(Triage1Out(tag))

\* C9: an execution starts from the thread's checkpoint plus its input, and
\* when an execution that was force-routed to recommend_node has ended, the
\* checkpoint holds has_triaged = true and, in the four triage fields, the
\* values of the checkpoint it was loaded from, which are the values one
\* triage execution wrote.
C9_TriageFieldsSurvive ==
    \A r \in Slots :
        /\ req[r].pc = "supervisor" =>
              /\ req[r].chan.messages = req[r].pre.messages \o req[r].input.messages
              /\ \A f \in DOMAIN req[r].pre \ DOMAIN req[r].input :
                    req[r].chan[f] = req[r].pre[f]
        /\ (req[r].pc = "exec_done" /\ req[r].forced) =>
              /\ req[r].route = "recommend_node"
              /\ TriageFields \subseteq DOMAIN req[r].pre
              /\ TriageFields \cup {"has_triaged"} \subseteq DOMAIN CkptOf(r)
              /\ CkptOf(r).has_triaged = TRUE
              /\ \A f \in TriageFields : CkptOf(r)[f] = req[r].pre[f]
              /\ WrittenByTriage(CkptOf(r))

C9_Witness ==
    \E r \in Slots :
        /\ req[r].pc = "exec_done"
        /\ req[r].forced
        /\ req[r].outcome = "ok_result"
        /\ CkptOf(r).analysis_result = AnalysisResult
        /\ CkptOf(r).triage1_result = Triage1Out(Tag(1, 1))

\* C10: a step changes the checkpoint and the conversation history of a
\* session only if it is a step of a request of that session; the state
\* that decides a session's next route is untouched by the other session.
C10_SessionIsolation ==
    [][\A s \in Sessions :
          (ckpt'[s] # ckpt[s] \/ conv'[s] # conv[s]) =>
              \E r \in Slots : req[r].sess = s /\ req'[r] # req[r]]_vars

C10_Witness ==
    \E r, q \in Slots :
        /\ req[r].sess = "p1" /\ req[r].pc = "exec_done"
        /\ req[q].sess = "p2" /\ req[q].pc = "exec_done"
        /\ ckpt["p1"].messages # <<>>
        /\ ckpt["p2"].messages # <<>>

\* C11: when two requests of one session have both finished their graph
\* execution, the session's checkpoint holds the user message and the node's
\* new message of both.
C11_NoLostUpdate ==
    \A r, q \in Slots :
        (r # q /\ req[r].sess = req[q].sess
             /\ req[r].pc = "exec_done" /\ req[q].pc = "exec_done") =>
            \A x \in {r, q} :
                /\ req[x].input.messages[1] \in Range(CkptOf(r).messages)
                /\ Last(req[x].delta.messages) \in Range(CkptOf(r).messages)

\* fields of State a turn may find absent
AbsentSets == SUBSET {"has_triaged", "analysis_result", "user_input", "type"}

\* C12: in every turn, whatever the handler sent and whichever optional
\* fields are absent from the state, each field supervisor_node, routing_func
\* and the selected worker node read by subscript is present when they read
\* it: messages always, type once supervisor_node has returned.
C12_AbsentFieldsNoError ==
    \A r \in Slots :
        /\ req[r].pc = "supervisor" =>
              \A F \in AbsentSets :
                  LET st == Without(req[r].chan, F)
                  IN  /\ SubscriptReads("supervisor_node") \subseteq DOMAIN st
                      /\ \A answer \in ClassifierAnswers :
                            LET st2 == Merge(st, supervisor_node(st, answer))
                                node == routing_func(st2)
                            IN  /\ SubscriptReads("routing_func") \subseteq DOMAIN st2
                                /\ node \in WorkerNodes
                                /\ SubscriptReads(node) \subseteq DOMAIN st2
        /\ req[r].pc = "route" =>
              /\ SubscriptReads("routing_func") \subseteq DOMAIN req[r].chan
              /\ SubscriptReads(routing_func(req[r].chan)) \subseteq DOMAIN req[r].chan

\* a first WebSocket turn, whose input has no default field, has run
\* triage_node
C12_Witness ==
    \E r \in Slots :
        /\ req[r].handler = "ws"
        /\ req[r].pc = "exec_done"
        /\ req[r].pre = BlankState
        /\ req[r].route = "triage_node"
        /\ "user_input" \notin DOMAIN req[r].entry
        /\ "has_triaged" \notin DOMAIN req[r].entry

BridgeTag == Tag(bridge.call, 1)

\* C13: when ParallelTriageNode.__call__ has returned, both tasks have
\* finished, and in whichever order they did, triage1_result is the output of
\* _run_triage1, triage2_result the output of _run_triage2 and
\* combined_analysis is the second text followed by the first.
C13_FanInFixedOrder ==
    bridge.op.kind = "ok" =>
        /\ \A i \in 1..2 : bridge.tasks[i].state = "done"
        /\ bridge.op.triage1_result = TaskOut(1, BridgeTag)
        /\ bridge.op.triage2_result = TaskOut(2, BridgeTag)
        /\ bridge.op.combined_analysis =
              <<"nl", "nl", "nl">> \o TaskOut(2, BridgeTag) \o <<"nl", "nl">>
                  \o TaskOut(1, BridgeTag) \o <<"nl", "nl">>

\* the second task finished first and the call has returned its result
C13_Witness ==
    /\ bridge.op.kind = "ok"
    /\ bridge.order = <<2, 1>>
    /\ bridge.pc = "returned"
    /\ bridge.delta.triage1_result = Triage1Out(BridgeTag)

\* C14: when one task has raised and the other has returned, the call of the
\* dispatcher ends with a result that holds the successful task's output in
\* its slot, not with an exception.
C14_PartialFailurePerSlot ==
    \A i \in 1..2 :
        (bridge.tasks[i].state = "failed" /\ bridge.tasks[3 - i].state = "done") =>
            /\ bridge.op.kind = "ok"
            /\ IF i = 1 THEN bridge.op.triage2_result = TaskOut(2, BridgeTag)
                        ELSE bridge.op.triage1_result = TaskOut(1, BridgeTag)

\* C15: a task whose sibling raised is never cancelled, and when the call
\* has returned each task has returned or raised by itself.
C15_SiblingNotCancelled ==
    /\ \A i \in 1..2 :
          ~(bridge.tasks[i].state = "cancelled" /\ bridge.tasks[3 - i].state = "failed")
    /\ bridge.pc = "returned" =>
          \A i \in 1..2 : bridge.tasks[i].state \in {"done", "failed"}

\* the operation never completes: a task hangs and its sibling does not raise
NeverCompletes ==
    \E i \in 1..2 :
        bridge.tasks[i].fate = "hang" /\ bridge.tasks[3 - i].fate \in {"ok", "hang"}

\* C16: on the thread path, once the 180 s have passed on an operation that
\* never completes, the caller has its timeout error without waiting for
\* the worker thread, and no task of the operation is still running.
C16_ThreadPathTimeout ==
    (bridge.path = "thread" /\ bridge.deadline /\ NeverCompletes) =>
        /\ bridge.caller = "returned"
        /\ bridge.surfaced = Exc("Exception", MsgTimeout)
        /\ \A i \in 1..2 : bridge.tasks[i].state # "running"

\* C17: on the direct path, once the 180 s have passed on an operation that
\* never completes, the caller has a timeout error.
C17_DirectPathTimeout ==
    (bridge.path = "direct" /\ bridge.deadline /\ NeverCompletes) =>
        /\ bridge.caller = "returned"
        /\ bridge.surfaced = Exc("Exception", MsgTimeout)

\* C18: when triage_node's bridge has returned to its caller, by a result,
\* by the operation's exception or by timeout, on either path, the call's
\* loop is closed, no task is still running on it and the worker thread, if
\* there was one, has ended.
C18_NoLeak ==
    bridge.caller = "returned" =>
        /\ bridge.loop = "closed"
        /\ \A i \in 1..2 : bridge.tasks[i].state \in {"done", "failed", "cancelled"}
        /\ bridge.thread = (IF bridge.path = "thread" THEN "terminated" ELSE "none")

\* a call on the thread path that timed out and whose loop still had a
\* running task when the operation ended
C18_Witness ==
    /\ bridge.caller = "returned"
    /\ bridge.path = "thread"
    /\ bridge.deadline
    /\ bridge.surfaced = Exc("Exception", MsgTimeout)
    /\ \E i \in 1..2 : bridge.tasks[i].state = "cancelled"

OtherPath(path) == IF path = "thread" THEN "direct" ELSE "thread"

\* C19: the delta triage_node returns for an operation that ended within the
\* deadline is the delta the other path returns for the same outcome of the
\* operation.
C19_PathsEquivalent ==
    (bridge.pc = "returned" /\ ~bridge.deadline) =>
        bridge.delta =
            TriageDelta(TriageBridge(OtherPath(bridge.path), bridge.op, FALSE), bridge.call)

\* C20: two threads are never both initializing the MCP client of one
\* getter, and the callers of a getter that got a client (or a node) got the
\* same one.
C20_SingleConstruction ==
    \A c, d \in Callers :
        (c # d /\ locator.callers[c].fn = locator.callers[d].fn) =>
            /\ ~(locator.callers[c].pc = "init" /\ locator.callers[d].pc = "init")
            /\ (locator.callers[c].pc = "done" /\ locator.callers[d].pc = "done") =>
                  /\ (locator.callers[c].got.client # 0 /\ locator.callers[d].got.client # 0)
                        => locator.callers[c].got.client = locator.callers[d].got.client
                  /\ (locator.callers[c].got.node.id # 0 /\ locator.callers[d].got.node.id # 0)
                        => locator.callers[c].got.node = locator.callers[d].got.node

\* C21: a call of a getter that begins after a call of it has returned and
\* that runs no MCP initialization of its own returns a handle that has the
\* MCP tools; that is, a call made after a failed initialization runs the
\* initialization again.
C21_FailureNotCached ==
    \A c \in Callers :
        (/\ locator.callers[c].pc = "done"
         /\ locator.callers[c].after
         /\ locator.callers[c].tried = "none") =>
            IF locator.callers[c].fn = "components"
            THEN locator.callers[c].got.tools.of # 0
            ELSE locator.callers[c].got.node.tools.of # 0

\* C22: a call of get_or_create_components that begins after a call of it
\* has returned constructs no LLM and no MCP client and leaves the cached
\* llm, client and tools as they are, so it returns the objects the earlier
\* call left in the cache.
C22_CachedHandleReused ==
    [][\A c \in Callers :
          (/\ locator.callers[c].fn = "components"
           /\ locator.callers[c].after
           /\ locator'.callers[c] # locator.callers[c]) =>
              /\ locator'.llms = locator.llms
              /\ locator'.clients["components"] = locator.clients["components"]
              /\ locator'.triage = locator.triage]_vars

\* C23: calls of triage_node that are in flight together run on different
\* event loops, and while a call is still running its operation no task of
\* it has been cancelled and its loop has not been closed: the cleanup of
\* another call touches neither.
C23_LoopsNotShared ==
    \A k \in PoolCalls :
        pool.calls[k].pc = "running" =>
            /\ pool.calls[k].loop \notin pool.closed
            /\ \A i \in 1..2 : /\ pool.tasks[k][i].state # "cancelled"
                                /\ pool.tasks[k][i].loop = pool.calls[k].loop
            /\ \A l \in PoolCalls \ {k} :
                   pool.calls[l].pc = "running" => pool.calls[l].loop # pool.calls[k].loop

\* one call has cancelled a task of its own and closed its loop while
\* another call is still running a task
C23_Witness ==
    \E k, l \in PoolCalls :
        /\ k # l
        /\ pool.calls[k].pc = "cleaned"
        /\ \E i \in 1..2 : pool.tasks[k][i].state = "cancelled"
        /\ pool.calls[l].pc = "running"
        /\ \E i \in 1..2 : pool.tasks[l][i].state = "running"

\* C24: the delta a worker node returns does not depend on the patient
\* store: it is the delta the node returns for the same state and the same
\* outcome of its own work when patient_id is set and patient_manager
\* writes the record (the patient_id field of the state itself, which
\* recommend_node hands back, aside).
C24_SaveNotNeeded ==
    store.call.pc = "returned" =>
        LET c == store.call
            withId == c.st @@ [patient_id |-> "p1"]
        IN  Without(c.delta, {"patient_id"}) =
               Without(NodeWithSave(c.node, withId, c.outcome, store.calls, "ok").delta,
                       {"patient_id"})

\* a node whose own work succeeded has returned although patient_manager
\* raised in its persistence block, and nothing was written for it
C24_Witness ==
    /\ store.call.pc = "returned"
    /\ store.call.pm = "raise"
    /\ store.call.outcome \notin FailureOutcomes
    /\ ReachesSave(store.call.node, store.call.st, store.call.outcome,
                   RunNode(store.call.node, store.call.st, store.call.outcome,
                           store.calls, 1))
    /\ store.call.node \notin store.records

\* positions of an event in the log of the current run
LogAt(kind, n) == {i \in DOMAIN experts.log : experts.log[i] = <<kind, n>>}

\* C25: in a run of the experts sub-graph, imaging_expert and
\* treatment_expert are called only after diagnostic_expert has returned,
\* both in the same step; summary is called at most once, only when the
\* writes of both are in the state it reads, and exactly once by the end of
\* the run.
C25_ExpertsOrdering ==
    /\ \A n \in {"imaging_expert", "treatment_expert"} :
          \A i \in LogAt("call", n) :
              \E j \in LogAt("return", "diagnostic_expert") : j < i
    /\ (experts.stepOf["imaging_expert"] # 0 /\ experts.stepOf["treatment_expert"] # 0)
          => experts.stepOf["imaging_expert"] = experts.stepOf["treatment_expert"]
    /\ ("imaging_expert" \in experts.active) = ("treatment_expert" \in experts.active)
    /\ Cardinality(LogAt("call", "summary")) <= 1
    /\ LogAt("call", "summary") # {} =>
          /\ {"imaging_expert", "treatment_expert"} \subseteq experts.applied
          /\ experts.views["summary"].imaging_expert_opinion # EmptyStr
          /\ experts.views["summary"].treatment_expert_opinion # EmptyStr
    /\ experts.pc = "done" => Cardinality(LogAt("call", "summary")) = 1

\* a run of three steps has ended in which treatment_expert returned before
\* imaging_expert was called
C25_Witness ==
    /\ experts.pc = "done"
    /\ experts.stepOf["diagnostic_expert"] = 1
    /\ experts.stepOf["imaging_expert"] = 2
    /\ experts.stepOf["summary"] = 3
    /\ \E i \in LogAt("return", "treatment_expert") :
          \E j \in LogAt("call", "imaging_expert") : i < j

\* C26: at the end of a run, the opinion field of an expert that raised
\* holds its error text with the reason, the opinion field of an expert
\* that did not raise holds the opinion it wrote, and summary has run and
\* left a final report, which experts_node takes as its result.
C26_ExpertFailureExplicit ==
    experts.pc = "done" =>
        /\ \A n \in ExpertNodes :
              experts.state[OpinionField(n)] =
                  IF experts.fates[n] = "raise"
                  THEN ExpertError(n, experts.run)
                  ELSE ExpertOpinion(n, experts.run)
        /\ "summary" \in experts.applied
        /\ experts.state.final_report # EmptyStr
        /\ experts.result = experts.state.final_report
        /\ experts.fates["summary"] = "ok" =>
              experts.result = FinalReport(experts.state, experts.run)

\* a run has ended in which one expert raised and another did not
C26_Witness ==
    /\ experts.pc = "done"
    /\ experts.fates["summary"] = "ok"
    /\ \E n, m \in ExpertNodes :
          experts.fates[n] = "raise" /\ experts.fates[m] = "ok"

\* C27: whenever supervisor_node has returned for a state in which
\* has_triaged is true and analysis_result is empty but the new message
\* contains one of the three fresh-report phrases, recommend_node was not
\* forced: the type is the classifier's stripped answer when that is in
\* `nodes` and "other" otherwise, and the conditional edge selects the node
\* of that type.
C27_FreshReportEscape ==
    \A r \in Slots :
        (/\ req[r].pc = "route"
         /\ Get(req[r].chan, "has_triaged", FALSE)
         /\ Get(req[r].chan, "analysis_result", EmptyDict) = EmptyDict
         /\ LooksFresh(Last(req[r].chan.messages).content)) =>
            LET typeRes == Strip(req[r].typeRes)
                type == IF typeRes \in nodes THEN typeRes ELSE TypeOther
            IN  /\ ~req[r].forced
                /\ req[r].chan.type = type
                /\ routing_func(req[r].chan) =
                      CASE type = TypeTriage -> "triage_node"
                        [] type = TypeRecommend -> "recommend_node"
                        [] type = TypeAgen -> "agen_node"
                        [] OTHER -> "other_node"

\* after a triage, a fresh report that the classifier sends to agen_node
C27_Witness ==
    \E r \in Slots :
        /\ req[r].pc = "route"
        /\ Get(req[r].chan, "has_triaged", FALSE)
        /\ Get(req[r].chan, "analysis_result", EmptyDict) = EmptyDict
        /\ Contains(PhraseChuXian, Last(req[r].chan.messages).content)
        /\ req[r].typeRes = TypeAgen
        /\ routing_func(req[r].chan) = "agen_node"

\* C29: whenever experts_node (agen_node) is entered with a history of two
\* or more messages, the second message of the history was written by the
\* user.
C29_SecondEntryIsUsers ==
    \A r \in Slots :
        (/\ req[r].pc = "apply"
         /\ req[r].route = "agen_node"
         /\ Len(req[r].entry.messages) >= 2) =>
            req[r].entry.messages[2].author = "user"

\* C30: when triage_node has returned from a call whose future.result
\* timed out (thread path, the 180 s passed before the worker thread was
\* done), the delta has the single field messages, with one message of
\* triage_node that carries the timeout text; has_triaged is not in it.
C30_TimeoutBecomesMessage ==
    (bridge.pc = "returned" /\ bridge.path = "thread" /\ bridge.deadline) =>
        /\ DOMAIN bridge.delta = {"messages"}
        /\ Len(bridge.delta.messages) = 1
        /\ bridge.delta.messages[1].author = "triage_node"
        /\ Contains(MsgTimeout, bridge.delta.messages[1].content)

\* a call that timed out although both triage tasks succeeded in the end
C30_Witness ==
    /\ bridge.pc = "returned"
    /\ bridge.path = "thread"
    /\ bridge.deadline
    /\ bridge.op.kind = "ok"
    /\ "has_triaged" \notin DOMAIN bridge.delta

\* C28: whenever a graph execution has taken its input for a session whose
\* checkpoint had has_triaged true, the state it starts from still has
\* has_triaged true and the triage results of the checkpoint: no input sent
\* after a turn wrote them carries the defaults.
C28_NoLaterReset ==
    \A r \in Slots :
        (req[r].pc = "supervisor" /\ Get(req[r].pre, "has_triaged", FALSE)) =>
            \A f \in TriageFields : req[r].chan[f] = req[r].pre[f]

\* a reply of triage_node that reports a triage, not an error
IsTriageReply(m) == m.author = "triage_node" /\ m.content # <<"error:triage">>

IsTriageError(m) == m.author = "triage_node" /\ m.content = <<"error:triage">>

\* C31: a delta that turns has_triaged true is the delta of a triage_node
\* execution that succeeded; the delta of a failed triage has no
\* has_triaged, and after it is applied has_triaged is what it was when the
\* node was entered; a turn is forced to recommend_node only in a session
\* whose history holds the reply of a successful triage.
C31_TriagedOnlyBySuccess ==
    \A r \in Slots :
        /\ (/\ req[r].pc = "apply"
            /\ Get(req[r].delta, "has_triaged", FALSE)
            /\ ~Get(req[r].entry, "has_triaged", FALSE)) =>
               (req[r].route = "triage_node" /\ req[r].outcome = "ok")
        /\ (/\ req[r].pc \in {"apply", "exec_done"}
            /\ req[r].route = "triage_node"
            /\ req[r].outcome = "raise") =>
               /\ "has_triaged" \notin DOMAIN req[r].delta
               /\ ("has_triaged" \in DOMAIN req[r].chan) = ("has_triaged" \in DOMAIN req[r].entry)
               /\ Get(req[r].chan, "has_triaged", FALSE) = Get(req[r].entry, "has_triaged", FALSE)
        /\ (req[r].pc = "route" /\ req[r].forced) =>
               \E i \in DOMAIN req[r].chan.messages : IsTriageReply(req[r].chan.messages[i])

\* the turn after a failed triage: an answer without a fresh-report phrase
\* reaches the classifier
C31_Witness ==
    \E r \in Slots :
        /\ req[r].pc = "route"
        /\ ~req[r].forced
        /\ NoFreshPhrase(Last(req[r].chan.messages).content)
        /\ \E i \in DOMAIN req[r].chan.messages : IsTriageError(req[r].chan.messages[i])
        /\ ~Get(req[r].chan, "has_triaged", FALSE)

HasTriageReply(st) == \E i \in DOMAIN st.messages : IsTriageReply(st.messages[i])

NoDiagnosis(st) == Get(st, "analysis_result", EmptyDict) = EmptyDict

HasConclusion(st) ==
    \E i \in DOMAIN st.messages :
        /\ st.messages[i].author = "recommend_node"
        /\ Contains(<<"conclusion">>, st.messages[i].content)

TypeOfThisTurn(forced, answer) ==
    IF forced THEN TypeRecommend
    ELSE IF Strip(answer) \in nodes THEN Strip(answer) ELSE TypeOther

\* C34: when routing_func reads type, supervisor_node has run in this
\* execution and type is what it decided on, by the context rule or from
\* the classifier's answer, whatever type the checkpoint held before; an
\* execution in which supervisor_node wrote no type never reaches
\* routing_func.
C34_RouteFromThisTurn ==
    \A r \in Slots :
        /\ req[r].pc = "route" =>
              /\ req[r].ran = <<"supervisor_node">>
              /\ req[r].chan.type = TypeOfThisTurn(req[r].forced, req[r].typeRes)
              /\ routing_func(req[r].chan) =
                    routing_func([type |-> TypeOfThisTurn(req[r].forced, req[r].typeRes)])
        /\ req[r].pc = "raised" => req[r].route = "none"

\* the checkpoint held the type of an earlier turn and this turn's route is
\* another one
C34_Witness ==
    \E r \in Slots :
        /\ req[r].pc = "route"
        /\ "type" \in DOMAIN req[r].pre
        /\ req[r].pre.type \in nodes
        /\ req[r].pre.type # req[r].chan.type
        /\ req[r].forced

FrameFields == KeptFields \cup {"diagnostic_tests"}

IsPrefix(s, t) == Len(s) <= Len(t) /\ SubSeq(t, 1, Len(s)) = s

TurnEntries(q) ==
    <<[role |-> "user", content |-> ChatTag(q)], [role |-> "assistant", content |-> ChatTag(q)]>>

\* C36: a chat request whose graph execution succeeded ends with the
\* history it found when it began to append plus its user entry and its
\* assistant entry; a request whose graph execution raised adds nothing;
\* no step changes or removes an entry that was in the history.
C36_ConversationLog ==
    [][/\ IsPrefix(record.file.conversation_history, record'.file.conversation_history)
       /\ \A q \in Chats :
             /\ (record.chat[q].pc # "done" /\ record'.chat[q].pc = "done") =>
                    record'.file.conversation_history = record.chat[q].base \o TurnEntries(q)
             /\ (record'.chat[q].pc = "failed") =>
                    (record.chat[q].pc \in {"graph", "failed"} /\ record.chat[q].todo = <<>>)
      ]_vars

\* the call found no diagnosis_info: no file, or a record without one
NoDiagnosisFound(call) == ~call.before.exists \/ ~call.before.diagnosis_info.set

\* the record after a call that stored the submitted tests
StoredTests(call) ==
    /\ call.after.exists
    /\ call.after.diagnosis_info.has_submitted
    /\ call.after.diagnosis_info.submitted_tests = call.tests
    /\ call.after.test_results = ResultsSummary(call.tests)

\* C37 as stated: a finished submission has raised and left the stored
\* record as it was exactly when the patient had no diagnosis_info or a
\* submitted test had a missing or empty result; otherwise it stored the
\* submitted list as submitted_tests and their summary as test_results.
C37_AsStated ==
    record.submit.pc = "done" =>
        LET call == record.submit
            rejected == \/ NoDiagnosisFound(call)
                        \/ \E i \in 1..Len(call.tests) : call.tests[i].result \in {"missing", ""}
        IN  IF rejected
            THEN call.raised # "no" /\ call.after = call.before
            ELSE call.raised = "no" /\ StoredTests(call)

\* C37, amended: a finished submission has raised and left the stored
\* record as it was exactly when the patient had no diagnosis_info, or a
\* submitted test had no test_name or a missing or empty result, or, at
\* the endpoint, a result that is blank or not a string; otherwise it
\* stored the submitted list as submitted_tests and their summary as
\* test_results.
C37_TestsNeedDiagnosis ==
    record.submit.pc = "done" =>
        LET call == record.submit
            rejected ==
                \/ NoDiagnosisFound(call)
                \/ \E i \in 1..Len(call.tests) :
                      \/ ~call.tests[i].has_name
                      \/ call.tests[i].result \in {"missing", ""}
                      \/ call.via = "endpoint" /\ call.tests[i].result \in {"  ", "number"}
        IN  IF rejected
            THEN call.raised # "no" /\ call.after = call.before
            ELSE call.raised = "no" /\ StoredTests(call)

\* two tests with results were submitted for a diagnosed patient
C37_Witness ==
    /\ record.submit.pc = "done"
    /\ record.submit.raised = "no"
    /\ record.submit.before.diagnosis_info.set
    /\ Len(record.submit.tests) = 2
    /\ record.file.diagnosis_info.submitted_tests = record.submit.tests
    /\ record.file.test_results = ResultsSummary(record.submit.tests)

\* C38: when update_triage_info, update_diagnosis_info or
\* update_expert_consultation has saved, the stored record holds the new
\* sub-record of that call, and every field other than that sub-record and
\* updated_at is as it was in the stored record the call began with.
C38_UpdateFrame ==
    \A q \in Chats :
        (record.chat[q].pc = "graph" /\ record.chat[q].call \in UpdateCalls) =>
            LET call == record.chat[q]
                own == OwnField(call.call)
            IN  /\ call.after.exists
                /\ call.after[own].set /\ call.after[own].by = q
                /\ call.before.exists =>
                      \A f \in RecordFieldNames \ {own, "updated_at"} :
                          call.after[f] = call.before[f]

\* update_diagnosis_info on a record that had a conversation history, a
\* triage_info and an initial_symptoms written by an earlier turn
C38_Witness ==
    \E q \in Chats :
        /\ record.chat[q].pc = "graph"
        /\ record.chat[q].call = "update_diagnosis_info"
        /\ record.chat[q].before.triage_info.set
        /\ record.chat[q].before.initial_symptoms # "None"
        /\ Len(record.chat[q].before.conversation_history) = 2
        /\ record.chat[q].after.diagnosis_info.set

\* C39: after delete_document with dry_run = True, for any document name
\* and any flags, the folders, the Redis indices, the Neo4j literature
\* sources and the metadata, in memory and in _metadata.json, are as they
\* were before the call.
C39_DryRunChangesNothing ==
    (kdm.op = "delete_document" /\ kdm.result.dry_run) => kdm.now = kdm.before

\* C40: after delete_document or cleanup_orphaned_resources, with any
\* flags, every index whose name contains symptom_vectors_ that Redis had
\* before the call is still there, and no such name is in redis_deleted
\* or orphaned_redis_indices.
C40_SymptomIndicesKept ==
    kdm.op \in {"delete_document", "cleanup_orphaned_resources"} =>
        /\ \A n \in kdm.before.redis :
              Contains(<<"symptom_vectors_">>, n) => n \in kdm.now.redis
        /\ \A i \in 1..Len(kdm.result.redis_deleted) :
              ~Contains(<<"symptom_vectors_">>, kdm.result.redis_deleted[i])
        /\ \A n \in kdm.result.orphaned_redis_indices :
              ~Contains(<<"symptom_vectors_">>, n)

\* a deletion that dropped the kg_ index of a document whose metadata also
\* lists its symptom index
C40_Witness ==
    /\ kdm.op = "delete_document"
    /\ ~kdm.result.dry_run
    /\ kdm.before.metadata[kdm.doc].registered
    /\ \E i \in 1..Len(kdm.before.metadata[kdm.doc].redis_indices) :
          kdm.before.metadata[kdm.doc].redis_indices[i] = SymptomIndex(kdm.doc)
    /\ kdm.result.redis_deleted = <<KgIndex(kdm.doc)>>
    /\ KgIndex(kdm.doc) \notin kdm.now.redis
    /\ SymptomIndex(kdm.doc) \in kdm.now.redis

====
